---- MODULE Spec2Model ----
(***************************************************************************)
(* A model of aurifere: the per-package git state machine (package.py,     *)
(* git.py), the review gate (review_needed / trivial_diff), the install    *)
(* queue (install.py) and the command line flow (cli.py).                  *)
(*                                                                         *)
(* Text is modelled as sequences of one-character strings, so that         *)
(* str.startswith is computed and not assumed.                             *)
(***************************************************************************)
EXTENDS Integers, Sequences, FiniteSets, TLC

----------------------------------------------------------------------------
\* Text constants.

PfxMinus == <<"-">>
PfxPlus == <<"+">>
PfxMinus2 == <<"-", "-">>
PfxPlus2 == <<"+", "+">>
PfxPkgver == <<"p", "k", "g", "v", "e", "r">>
PfxMd5 == <<"m", "d", "5", "s", "u", "m", "s">>
PfxSha256 == <<"s", "h", "a", "2", "5", "6", "s", "u", "m", "s">>
PfxSha512 == <<"s", "h", "a", "5", "1", "2", "s", "u", "m", "s">>
PfxSha1 == <<"s", "h", "a", "1", "s", "u", "m", "s">>

\* Lines a PKGBUILD of the model may hold.
LnPkgver10 == <<"p", "k", "g", "v", "e", "r", "=", "1", ".", "0">>
LnPkgver11 == <<"p", "k", "g", "v", "e", "r", "=", "1", ".", "1">>
LnPkgrel == <<"p", "k", "g", "r", "e", "l", "=", "1">>
LnEpoch == <<"e", "p", "o", "c", "h", "=", "1">>
LnMd5a == <<"m", "d", "5", "s", "u", "m", "s", "=", "a">>
LnMd5b == <<"m", "d", "5", "s", "u", "m", "s", "=", "b">>
LnSource == <<"s", "o", "u", "r", "c", "e", "=", "n", "e", "w", "u", "r", "l">>
LnExtra == <<"p", "k", "g", "v", "e", "r", "_", "e", "x", "t", "r", "a", "=", "e", "v", "i", "l">>
LnDashes == <<"-", "-", "p", "r", "e", "f", "i", "x", "=", "/", "e", "v", "i", "l">>

\* Lines of the output of `git diff` that are not lines of the file.
HdrDiff == <<"d", "i", "f", "f", " ", "-", "-", "g", "i", "t", " ", "a", "/", "P", "K", "G", "B", "U", "I", "L", "D", " ", "b", "/", "P", "K", "G", "B", "U", "I", "L", "D">>
HdrNewFile == <<"n", "e", "w", " ", "f", "i", "l", "e", " ", "m", "o", "d", "e", " ", "1", "0", "0", "6", "4", "4">>
HdrDeleted == <<"d", "e", "l", "e", "t", "e", "d", " ", "f", "i", "l", "e", " ", "m", "o", "d", "e", " ", "1", "0", "0", "6", "4", "4">>
HdrIndex == <<"i", "n", "d", "e", "x", " ", "0", "0", "0", "0", "0", "0", "0", ".", ".", "0", "0", "0", "0", "0", "0", "0">>
HdrOldA == <<"-", "-", "-", " ", "a", "/", "P", "K", "G", "B", "U", "I", "L", "D">>
HdrOldNull == <<"-", "-", "-", " ", "/", "d", "e", "v", "/", "n", "u", "l", "l">>
HdrNewB == <<"+", "+", "+", " ", "b", "/", "P", "K", "G", "B", "U", "I", "L", "D">>
HdrNewNull == <<"+", "+", "+", " ", "/", "d", "e", "v", "/", "n", "u", "l", "l">>
HdrHunk == <<"@", "@", " ", "-", "1", " ", "+", "1", " ", "@", "@">>

\* F applied to x: a value that the code computes once and names.
With(x, F(_)) == F(x)

\* An absent value (Python's None) is the empty sequence, a present one <<x>>.
None == <<>>
Some(x) == <<x>>

----------------------------------------------------------------------------
\* Files.  A tree is the set of the lines of its PKGBUILD, each named by a
\* short identifier; the empty tree holds no PKGBUILD.  Text gives a line's
\* characters and FileOrder the order of the lines in the file.

LineIds == {"epoch", "pkgver10", "pkgver11", "pkgrel", "md5a", "md5b", "source", "extra", "dashes"}

Text(id) ==
    CASE id = "epoch" -> LnEpoch
      [] id = "pkgver10" -> LnPkgver10
      [] id = "pkgver11" -> LnPkgver11
      [] id = "pkgrel" -> LnPkgrel
      [] id = "md5a" -> LnMd5a
      [] id = "md5b" -> LnMd5b
      [] id = "source" -> LnSource
      [] id = "extra" -> LnExtra
      [] id = "dashes" -> LnDashes

FileOrder == <<"epoch", "pkgver10", "pkgver11", "pkgrel", "md5a", "md5b", "source", "extra", "dashes">>

EmptyTree == {}

HasPKGBUILD(tree) == tree # EmptyTree

\* str.startswith(prefix, start): line[start:] begins with prefix.
StartsWithAt(line, prefix, start) ==
    /\ Len(line) >= start + Len(prefix)
    /\ \A i \in 1..Len(prefix) : line[start + i] = prefix[i]

\* str.startswith(tuple of prefixes, start)
StartsWithAny(line, prefixes, start) ==
    \E p \in prefixes : StartsWithAt(line, p, start)

\* The output of `git diff <old>` against a working tree <new>, split into
\* lines: nothing when the two are equal, else the headers, the hunk header
\* and one line per line of either file (" " kept, "-" removed, "+" added).
DiffBodyLine(old, new, id) ==
    IF id \in old /\ id \in new THEN <<" ">> \o Text(id)
    ELSE IF id \in old THEN PfxMinus \o Text(id)
    ELSE PfxPlus \o Text(id)

DiffLines(old, new) ==
    IF old = new THEN <<>>
    ELSE LET ids == SelectSeq(FileOrder, LAMBDA id : id \in (old \cup new))
             body == [i \in 1..Len(ids) |-> DiffBodyLine(old, new, ids[i])]
             mode == IF ~HasPKGBUILD(old) THEN <<HdrNewFile>>
                     ELSE IF ~HasPKGBUILD(new) THEN <<HdrDeleted>>
                     ELSE <<>>
             from == IF HasPKGBUILD(old) THEN HdrOldA ELSE HdrOldNull
             to == IF HasPKGBUILD(new) THEN HdrNewB ELSE HdrNewNull
         IN  <<HdrDiff>> \o mode \o <<HdrIndex, from, to, HdrHunk>> \o body

\* package.py trivial_diff, on the text of the diff.
TrivialPrefixes == {PfxMinus2, PfxPlus2, PfxPkgver, PfxMd5, PfxSha256, PfxSha512, PfxSha1}

\* Mutant: the prefixes are looked for at the start of the line, not after
\* its first character.
TrivialDiffText_FromStart(diff) ==
    \A i \in 1..Len(diff) :
        StartsWithAny(diff[i], {PfxMinus, PfxPlus}, 0)
            => StartsWithAny(diff[i], TrivialPrefixes, 0)

TrivialDiffText(diff) ==
    \A i \in 1..Len(diff) :
        StartsWithAny(diff[i], {PfxMinus, PfxPlus}, 0)
            => StartsWithAny(diff[i], TrivialPrefixes, 1)

----------------------------------------------------------------------------
\* PKGBUILD parsing (pkgbuild.py).  The parsed content of a tree: the values
\* of its pkgver, pkgrel and epoch assignments (the last one of each wins, as
\* in the shell that evaluates the file).

AssignedValue(tree, key) ==
    LET pfx == key \o <<"=">>
        ids == SelectSeq(FileOrder, LAMBDA id : id \in tree /\ StartsWithAt(Text(id), pfx, 0))
    IN  IF ids = <<>> THEN None
        ELSE LET t == Text(ids[Len(ids)]) IN Some(SubSeq(t, Len(pfx) + 1, Len(t)))

KeyPkgver == <<"p", "k", "g", "v", "e", "r">>
KeyPkgrel == <<"p", "k", "g", "r", "e", "l">>
KeyEpoch == <<"e", "p", "o", "c", "h">>

\* PKGBUILD._parse: the structured content of the file
ParsePKGBUILD(tree) ==
    [version |-> AssignedValue(tree, KeyPkgver)[1],
     release |-> AssignedValue(tree, KeyPkgrel)[1],
     epoch |-> AssignedValue(tree, KeyEpoch)]

\* PKGBUILD.version: '{}-{}'.format(self['version'], self['release'])
PkgbuildVersion(content) == content.version \o <<"-">> \o content.release

\* The characters of the version strings of the model, in the order of their
\* code points, which is the order Python compares strings by.
VersionChars == <<"-", ".", "0", "1", "2", "3", "4", "5", "6", "7", "8", "9", ":", "_", "r">>

CharOrd(c) == CHOOSE i \in DOMAIN VersionChars : VersionChars[i] = c

RECURSIVE Split(_, _)

\* str.split(sep)
Split(s, sep) ==
    IF \A i \in DOMAIN s : s[i] # sep THEN <<s>>
    ELSE With(CHOOSE i \in DOMAIN s : s[i] = sep /\ \A j \in 1..(i - 1) : s[j] # sep, LAMBDA i :
            <<SubSeq(s, 1, i - 1)>> \o Split(SubSeq(s, i + 1, Len(s)), sep))

\* try_int: int(x) when x is an integer literal (digits, with single
\* underscores between them), else x itself.  No segment of a version holds
\* a sign or a blank.
TryInt(x) ==
    LET digits == SelectSeq(x, LAMBDA c : c # "_")
        value[i \in 0..Len(digits)] ==
            IF i = 0 THEN 0 ELSE 10 * value[i - 1] + (CharOrd(digits[i]) - CharOrd("0"))
    IN  IF /\ x # <<>>
           /\ \A i \in DOMAIN x : CharOrd(x[i]) \in CharOrd("0")..CharOrd("9") \/ x[i] = "_"
           /\ x[1] # "_" /\ x[Len(x)] # "_"
           /\ \A i \in 1..(Len(x) - 1) : ~(x[i] = "_" /\ x[i + 1] = "_")
        THEN [isInt |-> TRUE, n |-> value[Len(digits)], s |-> <<>>]
        ELSE [isInt |-> FALSE, n |-> 0, s |-> x]

\* a > b on two str
StrGreater(a, b) ==
    \E i \in 1..Len(a) :
        /\ i <= Len(b) + 1
        /\ \A j \in 1..(i - 1) : a[j] = b[j]
        /\ i = Len(b) + 1 \/ CharOrd(a[i]) > CharOrd(b[i])

RECURSIVE TupleCompare(_, _, _)

\* The comparison of two tuples from their i-th items on: the first items
\* that are not equal decide, and the order of an int and a str is a
\* TypeError; without such items the longer tuple is the greater one.
TupleCompare(t1, t2, i) ==
    IF i > Len(t1) \/ i > Len(t2)
    THEN IF Len(t1) > Len(t2) THEN "gt" ELSE IF Len(t1) < Len(t2) THEN "lt" ELSE "eq"
    ELSE IF t1[i] = t2[i] THEN TupleCompare(t1, t2, i + 1)
    ELSE IF t1[i].isInt # t2[i].isInt THEN "TypeError"
    ELSE IF t1[i].isInt THEN (IF t1[i].n > t2[i].n THEN "gt" ELSE "lt")
    ELSE IF StrGreater(t1[i].s, t2[i].s) THEN "gt" ELSE "lt"

\* tuple(map(try_int, major.split('.')))
VersionTuple(major) ==
    With(Split(major, "."), LAMBDA parts : [i \in DOMAIN parts |-> TryInt(parts[i])])

\* Mutant: the segments are compared as text.
VersionIsGreater_ComparesText(v1, v2) ==
    With(<<Split(v1, "-"), Split(v2, "-")>>, LAMBDA p :
        IF Len(p[1]) # 2 \/ Len(p[2]) # 2 THEN [raised |-> "ValueError", ret |-> FALSE]
        ELSE [raised |-> "",
              ret |-> \/ StrGreater(p[1][1], p[2][1])
                      \/ p[1][1] = p[2][1] /\ StrGreater(p[1][2], p[2][2])])

\* version_is_greater(v1, v2): the exception raised ("" when none) and the
\* value returned.  The unpacking of split('-') needs exactly two parts.
VersionIsGreater(v1, v2) ==
    With(<<Split(v1, "-"), Split(v2, "-")>>, LAMBDA p :
        IF Len(p[1]) # 2 \/ Len(p[2]) # 2 THEN [raised |-> "ValueError", ret |-> FALSE]
        ELSE With(TupleCompare(VersionTuple(p[1][1]), VersionTuple(p[2][1]), 1), LAMBDA c :
                IF c = "TypeError" THEN [raised |-> "TypeError", ret |-> FALSE]
                ELSE [raised |-> "",
                      ret |-> CASE c = "gt" -> TRUE
                                [] c = "lt" -> FALSE
                                [] OTHER -> StrGreater(p[1][2], p[2][2])]))

\* The Version field the AUR reports for an uploaded recipe: epoch:pkgver-pkgrel,
\* the epoch and its colon only when the recipe sets one.
AurVersion(tree) ==
    LET c == ParsePKGBUILD(tree)
    IN  (IF c.epoch = None THEN <<>> ELSE c.epoch[1] \o <<":">>)
            \o c.version \o <<"-">> \o c.release

\* The recipes the commit tagged reviewed may hold where trivial_diff is
\* checked alone.
Releases ==
    { {"pkgver10", "pkgrel"},
      {"pkgver11", "pkgrel"},
      {"pkgver11", "pkgrel", "source"},
      {"pkgver11", "pkgrel", "extra"},
      {"pkgver11", "pkgrel", "dashes"},
      {"epoch", "pkgver10", "pkgrel"} }

----------------------------------------------------------------------------
\* The git repository of one package directory (git.py), as a record g:
\*   exists    the directory exists
\*   commits   the commits made, in order: commit i is commits[i]
\*   master, upstream   the commits the two branches point to
\*   head      the checked-out branch
\*   reviewed  the commit tag `reviewed` points to
\*   vtags     the other tags (`empty` and the versions), as records [name, at]
\*   worktree  the tracked content of the working directory
\* and of the Package object over it (package.py):
\*   open      a Package object exists in the running process
\*   cache     Package._pkgbuild
\*   provider  Package.provider: None or Some(the release upstream holds)

NoDir ==
    [exists |-> FALSE, commits |-> <<>>, master |-> 0, upstream |-> 0,
     head |-> "master", reviewed |-> 0, vtags |-> {}, worktree |-> EmptyTree,
     open |-> FALSE, cache |-> None, provider |-> None]

MsgInitial == <<"I", "n", "i", "t", "i", "a", "l", " ", "c", "o", "m", "m", "i", "t">>

\* The name of the tag put on the root commit
TagEmpty == <<"e", "m", "p", "t", "y">>

Tip(g, branch) == IF branch = "master" THEN g.master ELSE g.upstream

HeadCommit(g) == Tip(g, g.head)

TreeOf(g, c) == g.commits[c].tree

\* Git.status(): the tracked files that differ from HEAD
Status(g) == g.worktree # TreeOf(g, HeadCommit(g))

\* Git.init: git init, then an empty root commit on master
GitInit(g) ==
    [g EXCEPT !.exists = TRUE,
              !.commits = <<[tree |-> EmptyTree, msg |-> MsgInitial]>>,
              !.master = 1, !.head = "master", !.worktree = EmptyTree]

\* git branch upstream
GitBranchUpstream(g) == [g EXCEPT !.upstream = HeadCommit(g)]

\* Git.switch_branch: git checkout refuses to overwrite local changes to a file
\* that differs between the two branches, and carries them over otherwise.
SwitchBranchOk(g, branch) ==
    ~Status(g) \/ TreeOf(g, Tip(g, branch)) = TreeOf(g, HeadCommit(g))

SwitchBranch(g, branch) ==
    [g EXCEPT !.head = branch,
              !.worktree = IF Status(g) THEN g.worktree ELSE TreeOf(g, Tip(g, branch))]

\* Git.commit_all: git add -A, git commit -m message; git commit fails when
\* there is nothing to commit.
CommitAllOk(g) == g.worktree # TreeOf(g, HeadCommit(g))

CommitAll(g, message) ==
    LET c == Len(g.commits) + 1
    IN  [g EXCEPT !.commits = Append(@, [tree |-> g.worktree, msg |-> message]),
                  !.master = IF g.head = "master" THEN c ELSE @,
                  !.upstream = IF g.head = "upstream" THEN c ELSE @]

\* git check-ref-format: the characters a tag name may not hold
ValidRefName(name) ==
    /\ name # <<>>
    /\ \A i \in 1..Len(name) : name[i] \notin {":", " ", "~", "^", "?", "*", "["}

\* Git.tag(tag): git tag fails when the name is taken or is not a ref name
TagOk(g, name) ==
    /\ ValidRefName(name)
    /\ ~\E t \in g.vtags : t.name = name

Tag(g, name) == [g EXCEPT !.vtags = @ \cup {[name |-> name, at |-> HeadCommit(g)]}]

\* Git.tag('reviewed', force=True) and the first git tag reviewed
TagReviewed(g) == [g EXCEPT !.reviewed = HeadCommit(g)]

\* git reset --hard <commit>: the checked-out branch and the tree move to it
ResetHard(g, c) ==
    [g EXCEPT !.master = IF g.head = "master" THEN c ELSE @,
              !.upstream = IF g.head = "upstream" THEN c ELSE @,
              !.worktree = TreeOf(g, c)]

----------------------------------------------------------------------------
\* The methods of Package (package.py), as functions from the record g to the
\* outcome of the call: the new g, the exception raised ("" when none), the
\* value returned, the external commands run, in order, and the tree that
\* makepkg was run on (None when it was not run).

Res(g, raised, ret, calls, built) ==
    [g |-> g, raised |-> raised, ret |-> ret, calls |-> calls, built |-> built]

\* Package.pkgbuild: the cached PKGBUILD object when there is one, else the
\* parse of the PKGBUILD of the working directory
Pkgbuild(g) ==
    IF g.cache # None THEN [g |-> g, raised |-> "", content |-> g.cache]
    ELSE IF ~HasPKGBUILD(g.worktree)
         THEN [g |-> g, raised |-> "NoPKGBUILDException", content |-> None]
         ELSE With(ParsePKGBUILD(g.worktree), LAMBDA c :
                [g |-> [g EXCEPT !.cache = Some(c)], raised |-> "", content |-> Some(c)])

\* Package.version
Version(g) ==
    With(Pkgbuild(g), LAMBDA pb :
        [g |-> pb.g, raised |-> pb.raised,
         version |-> IF pb.raised # "" THEN None ELSE Some(PkgbuildVersion(pb.content[1]))])

\* Mutant: the tag is put on the tip of upstream, not on HEAD.
ValidateReview_TagsUpstream(g) == [g EXCEPT !.reviewed = g.upstream]

\* Package.validate_review: git tag --force reviewed, which tags HEAD
ValidateReview(g) == TagReviewed(g)

\* Package.trivial_diff: git diff reviewed compares the working tree with the
\* commit tagged reviewed
TrivialDiff(g) == TrivialDiffText(DiffLines(TreeOf(g, g.reviewed), g.worktree))

\* Package.review_needed
ReviewNeeded(g) ==
    IF g.reviewed # g.master
    THEN IF TrivialDiff(g)
         THEN Res(ValidateReview(g), "", "False",
                  <<"show-ref reviewed", "show-ref master", "diff reviewed", "tag --force reviewed">>, None)
         ELSE Res(g, "", "True", <<"show-ref reviewed", "show-ref master", "diff reviewed">>, None)
    ELSE Res(g, "", "False", <<"show-ref reviewed", "show-ref master">>, None)

\* The last statement of update_from_upstream: switch back to master
BackToMaster(g, calls) ==
    IF ~SwitchBranchOk(g, "master")
    THEN Res(g, "CalledProcessError", "", calls \o <<"checkout master">>, None)
    ELSE Res(SwitchBranch(g, "master"), "", "None", calls \o <<"checkout master">>, None)

\* The branch of update_from_upstream taken when the version differs: fetch,
\* commit and tag on upstream, then back to master.  g has the directory
\* purged; recipe is what upstream holds.
FetchCommitTag(g, recipe, new_version, fetchOk) ==
    IF ~fetchOk THEN Res(g, "URLError", "", <<"checkout upstream", "fetch">>, None)
    ELSE With([g EXCEPT !.worktree = recipe, !.cache = None], LAMBDA g4 :
         IF ~CommitAllOk(g4)
         THEN Res(g4, "CalledProcessError", "",
                  <<"checkout upstream", "fetch", "add", "commit">>, None)
         ELSE With(CommitAll(g4, new_version), LAMBDA g5 :
              IF ~TagOk(g5, new_version)
              THEN Res(g5, "CalledProcessError", "",
                       <<"checkout upstream", "fetch", "add", "commit", "tag">>, None)
              ELSE BackToMaster(Tag(g5, new_version),
                                <<"checkout upstream", "fetch", "add", "commit", "tag">>)))

\* Package.update_from_upstream.  fetchOk: the download of the provider
\* succeeds (the purge before it has then already emptied the directory).
UpdateFromUpstream(g, fetchOk) ==
    IF g.provider = None THEN Res(g, "", "False", <<>>, None)
    ELSE IF ~SwitchBranchOk(g, "upstream")
    THEN Res(g, "CalledProcessError", "", <<"checkout upstream">>, None)
    ELSE With(Version(SwitchBranch(g, "upstream")), LAMBDA v :
         With(AurVersion(g.provider[1]), LAMBDA new_version :
            IF v.version = None \/ v.version[1] # new_version
            THEN FetchCommitTag([v.g EXCEPT !.worktree = EmptyTree], g.provider[1],
                                new_version, fetchOk)
            ELSE BackToMaster(v.g, <<"checkout upstream">>)))

\* Mutant: the files of upstream are checked out and the branch is not moved.
ApplyModifications_KeepsBranch(g) == [g EXCEPT !.worktree = TreeOf(g, g.upstream)]

\* Package.apply_modifications: git reset --hard upstream
ApplyModifications(g) == ResetHard(g, g.upstream)

\* What a build that rewrites its own recipe (a devel package) leaves in the
\* PKGBUILD: another pkgver.
Rewritten(tree) ==
    IF "pkgver10" \in tree THEN (tree \ {"pkgver10"}) \cup {"pkgver11"}
    ELSE IF "pkgver11" \in tree THEN (tree \ {"pkgver11"}) \cup {"pkgver10"}
    ELSE tree

\* Mutant: the clean-up is skipped when makepkg fails.
RunMakepkg_CleansOnSuccessOnly(g, calls, buildOk, rewrites) ==
    With(IF rewrites THEN [g EXCEPT !.worktree = Rewritten(@)] ELSE g, LAMBDA g2 :
        IF buildOk /\ HasPKGBUILD(g.worktree)
        THEN Res(IF Status(g2) THEN ResetHard(g2, HeadCommit(g2)) ELSE g2, "", "None",
                 calls \o <<"makepkg", "clean", "status">>
                       \o (IF Status(g2) THEN <<"warn", "reset">> ELSE <<>>),
                 Some(g.worktree))
        ELSE Res(g2, "CalledProcessError", "", calls \o <<"makepkg">>, Some(g.worktree)))

\* The try block of build_and_install and its finally clause: makepkg, git
\* clean, and logger.warn and git reset --hard when a tracked file differs
\* from HEAD.
RunMakepkg(g, calls, buildOk, rewrites) ==
    With(IF rewrites THEN [g EXCEPT !.worktree = Rewritten(@)] ELSE g, LAMBDA g2 :
        Res(IF Status(g2) THEN ResetHard(g2, HeadCommit(g2)) ELSE g2,
            IF buildOk /\ HasPKGBUILD(g.worktree) THEN "" ELSE "CalledProcessError",
            IF buildOk /\ HasPKGBUILD(g.worktree) THEN "None" ELSE "",
            calls \o <<"makepkg", "clean", "status">>
                  \o (IF Status(g2) THEN <<"warn", "reset">> ELSE <<>>),
            Some(g.worktree)))

\* Mutant: the build is run without asking review_needed.
BuildAndInstall_NoGate(g, buildOk, rewrites) == RunMakepkg(g, <<>>, buildOk, rewrites)

\* Package.build_and_install.  buildOk: makepkg exits with 0; rewrites: the
\* build modifies the tracked PKGBUILD.
BuildAndInstall(g, buildOk, rewrites) ==
    With(ReviewNeeded(g), LAMBDA rn :
        IF rn.ret = "True"
        THEN Res(rn.g, "NotReviewedException", "", rn.calls, None)
        ELSE RunMakepkg(rn.g, rn.calls, buildOk, rewrites))

\* Mutant: the tag empty is not put.
InitDirectory_NoEmptyTag(g) == TagReviewed(GitBranchUpstream(GitInit(g)))

\* Package.__init__, when the directory does not exist: git init, the branch
\* upstream and the tags reviewed and empty
InitDirectory(g) == Tag(TagReviewed(GitBranchUpstream(GitInit(g))), TagEmpty)

\* Mutant: a working directory that is not clean is reset to HEAD, and the
\* constructor goes on.
Construct_ResetsDirty(g, prov, fetchOk) ==
    LET g0 == [g EXCEPT !.open = TRUE, !.cache = None, !.provider = prov]
        c1 == (IF g.exists THEN <<>>
               ELSE <<"init", "branch upstream", "tag reviewed", "tag empty">>) \o <<"status">>
    IN  With(IF g.exists THEN g0 ELSE InitDirectory(g0), LAMBDA g1 :
        With(IF Status(g1) THEN ResetHard(g1, HeadCommit(g1)) ELSE g1, LAMBDA g2 :
            IF HasPKGBUILD(g2.worktree) THEN Res(g2, "", "None", c1 \o <<"reset">>, None)
            ELSE With(UpdateFromUpstream(g2, fetchOk), LAMBDA u :
                    IF u.raised # "" THEN Res(u.g, u.raised, "", c1 \o u.calls, None)
                    ELSE Res(ApplyModifications(u.g), "", "None",
                             c1 \o u.calls \o <<"reset upstream">>, None))))

\* Package.__init__ over the directory of g, with the provider the
\* provider class returns.  No Package object exists when it raises.
Construct(g, prov, fetchOk) ==
    LET g0 == [g EXCEPT !.open = TRUE, !.cache = None, !.provider = prov]
        c1 == (IF g.exists THEN <<>>
               ELSE <<"init", "branch upstream", "tag reviewed", "tag empty">>) \o <<"status">>
    IN  With(IF g.exists THEN g0 ELSE InitDirectory(g0), LAMBDA g1 :
            IF Status(g1) THEN Res(g1, "WorkingDirNotCleanException", "", c1, None)
            ELSE IF HasPKGBUILD(g1.worktree) THEN Res(g1, "", "None", c1, None)
            ELSE With(UpdateFromUpstream(g1, fetchOk), LAMBDA u :
                    IF u.raised # "" THEN Res(u.g, u.raised, "", c1 \o u.calls, None)
                    ELSE Res(ApplyModifications(u.g), "", "None",
                             c1 \o u.calls \o <<"reset upstream">>, None)))

----------------------------------------------------------------------------
\* State.

Names == {"a", "b", "c"}

VARIABLES
    pk,     \* pk[n]: the directory of package n and the Package object over it
    last,   \* the last call made on a Package: what it was and its outcome
    validated,  \* history: validated[n] is Some(the tip of master) since the
                \* last validate_review of n, None once master has moved
    diffOld,    \* trivial_diff alone: the tree of the commit tagged reviewed,
    diffNew,    \* the working tree,
    diffResult, \* and what trivial_diff said of the diff between them
    depends,    \* depends[n]: what all_depends() yields for the recipe of n
    index,      \* index[n]: where n is found: "aur", "sync" (an official
                \* repository of pacman) or "none"
    installedPkgs,  \* the packages of pacman's local database
    db,     \* Repository.db: the type recorded for a name, "" when none is
    inst,   \* the Install object of the running process
    cli     \* the position of the command line flow and what it has done

pkgVars == <<pk, last, validated>>
diffVars == <<diffOld, diffNew, diffResult>>
envVars == <<depends, index, db>>
queueVars == <<inst, cli>>
vars == <<pk, last, validated, diffOld, diffNew, diffResult, depends, index,
          installedPkgs, db, inst, cli>>

MaxCommits == 4

\* The recipes the upstream index publishes over the life of a package: two
\* versions, one of them also with a line more, and one with an epoch.
Published ==
    { {"pkgver10", "pkgrel"},
      {"pkgver11", "pkgrel"},
      {"pkgver11", "pkgrel", "extra"},
      {"epoch", "pkgver10", "pkgrel"} }

\* What the provider class may return: no provider, or one for the recipe
\* that upstream holds.
Providers == {None} \cup {Some(r) : r \in Published}

Range(f) == {f[i] : i \in DOMAIN f}

NoCall ==
    [op |-> "none", name |-> "", arg |-> "", raised |-> "", args |-> <<>>, ret |-> "",
     calls |-> <<>>, built |-> None, after |-> "none"]

\* The arguments the raise statements give each exception, for the package
\* called name; what is not a name is held by a word for it.
ExcArgs(exc, name) ==
    CASE exc = "WorkingDirNotCleanException" -> <<name, "modified_files">>
      [] exc = "NoPKGBUILDException" -> <<name, "pkgbuild_path">>
      [] exc = "NotReviewedException" -> <<>>
      [] exc = "PackageNotInRepositoryException" -> <<>>
      [] exc = "ValueError" -> <<"Unsupported value for argument type", "type">>
      [] exc = "CalledProcessError" -> <<"returncode", "cmd">>
      [] exc = "URLError" -> <<"reason">>
      [] OTHER -> <<>>

\* Did the call recorded in l end by review_needed approving a trivial diff
AutoApproved(l) == l.op = "review_needed" /\ "tag --force reviewed" \in Range(l.calls)

\* Did the call recorded in l end by update_from_upstream returning after a
\* fetch
Fetched(l) ==
    l.op = "update_from_upstream" /\ l.raised = "" /\ "fetch" \in Range(l.calls)

\* The record of a call: after tells whether the call before it, on the same
\* package, was a review_needed that approved a trivial diff, or an
\* update_from_upstream that fetched.
Call(op, n, r) ==
    [op |-> op, name |-> n, arg |-> "", raised |-> r.raised,
     args |-> ExcArgs(r.raised, n), ret |-> r.ret,
     calls |-> r.calls, built |-> r.built,
     after |-> IF last.name = n /\ AutoApproved(last) THEN "auto-approval"
               ELSE IF last.name = n /\ Fetched(last) THEN "fetch"
               ELSE "other"]

\* The bound on the commits of a directory: a call that would make one more
\* is not taken.
WithinBound(r) == Len(r.g.commits) <= MaxCommits

\* No caller catches what a method of Package raises (cli.py, install.py): the
\* exception ends the process, and with it the Package object.  The directory
\* stays as the call left it.
Closed(g) == [g EXCEPT !.open = FALSE, !.cache = None, !.provider = None]

AfterCall(r) == IF r.raised = "" THEN r.g ELSE Closed(r.g)

\* No Install object: no process is running one.
NoInstall ==
    [live |-> FALSE, to_install |-> <<>>,
     dependencies |-> [n \in Names |-> <<>>],
     _pacman_dependencies |-> [n \in Names |-> <<>>],
     repeated |-> FALSE]

\* No command is running and none has run.
CliIdle ==
    [pc |-> "idle", command |-> "none", exit |-> "", to_review |-> <<>>, at |-> 0,
     base |-> [n \in Names |-> EmptyTree], auto |-> {}, answered |-> {}, built |-> <<>>,
     queue |-> <<>>, called |-> <<>>, fetched |-> <<>>]

----------------------------------------------------------------------------
\* The life of one package: every method of Package, called in any order on
\* package "a", and the process ending and another one opening the directory
\* again, with the provider then found upstream.

Subject == "a"

\* Nothing is open and nothing has been called.
PackagesIdle ==
    /\ pk = [n \in Names |-> NoDir]
    /\ last = NoCall
    /\ validated = [n \in Names |-> None]

DiffIdle ==
    /\ diffOld = EmptyTree
    /\ diffNew = EmptyTree
    /\ diffResult = "idle"

\* Nothing is queued, no command runs, and pacman has nothing installed.
InstallIdle ==
    /\ depends = [n \in Names |-> <<>>]
    /\ index = [n \in Names |-> "aur"]
    /\ installedPkgs = {}
    /\ db = [n \in Names |-> ""]
    /\ inst = NoInstall
    /\ cli = CliIdle

InitPackage ==
    /\ PackagesIdle
    /\ DiffIdle
    /\ InstallIdle

\* Package(name, repository, provider_class)
Open(n) ==
    /\ ~pk[n].open
    /\ \E r \in {Construct(pk[n], prov, fetchOk) : prov \in Providers, fetchOk \in BOOLEAN} :
          /\ WithinBound(r)
          /\ pk' = [pk EXCEPT ![n] = AfterCall(r)]
          /\ last' = Call("init", n, r)

\* The process ends without an error.
Exit(n) ==
    /\ pk[n].open
    /\ pk' = [pk EXCEPT ![n] = Closed(pk[n])]
    /\ last' = Call("exit", n, Res(pk[n], "", "", <<>>, None))

DoUpdateFromUpstream(n) ==
    /\ pk[n].open
    /\ \E r \in {UpdateFromUpstream(pk[n], fetchOk) : fetchOk \in BOOLEAN} :
          /\ WithinBound(r)
          /\ pk' = [pk EXCEPT ![n] = AfterCall(r)]
          /\ last' = Call("update_from_upstream", n, r)

DoApplyModifications(n) ==
    /\ pk[n].open
    /\ pk' = [pk EXCEPT ![n] = ApplyModifications(pk[n])]
    /\ last' = Call("apply_modifications", n, Res(pk[n], "", "None", <<"reset upstream">>, None))

DoReviewNeeded(n) ==
    /\ pk[n].open
    /\ \E r \in {ReviewNeeded(pk[n])} :
          /\ pk' = [pk EXCEPT ![n] = r.g]
          /\ last' = Call("review_needed", n, r)

DoValidateReview(n) ==
    /\ pk[n].open
    /\ pk' = [pk EXCEPT ![n] = ValidateReview(pk[n])]
    /\ last' = Call("validate_review", n, Res(pk[n], "", "None", <<"tag --force reviewed">>, None))

DoVersion(n) ==
    /\ pk[n].open
    /\ \E r \in {Version(pk[n])} :
          /\ pk' = [pk EXCEPT ![n] = AfterCall(r)]
          /\ last' = Call("version", n, Res(r.g, r.raised, IF r.raised = "" THEN "str" ELSE "", <<>>, None))

DoBuildAndInstall(n) ==
    /\ pk[n].open
    /\ \E r \in {BuildAndInstall(pk[n], buildOk, rewrites) : buildOk \in BOOLEAN, rewrites \in BOOLEAN} :
          /\ pk' = [pk EXCEPT ![n] = AfterCall(r)]
          /\ last' = Call("build_and_install", n, r)

\* The history of validate_review calls (made by the caller, or by
\* review_needed on a trivial diff) and of the moves of master since.
Track ==
    validated' = [n \in Names |->
        IF last'.name = n /\ "tag --force reviewed" \in Range(last'.calls)
        THEN Some(pk'[n].master)
        ELSE IF pk'[n].master # pk[n].master THEN None
        ELSE validated[n]]

PackageStep ==
    \/ Open(Subject)
    \/ Exit(Subject)
    \/ DoUpdateFromUpstream(Subject)
    \/ DoApplyModifications(Subject)
    \/ DoReviewNeeded(Subject)
    \/ DoValidateReview(Subject)
    \/ DoVersion(Subject)
    \/ DoBuildAndInstall(Subject)

\* No method of Package called here reads pacman's database: it is left out of
\* the state of this specification, as are the index and the install queue.
NextPackage ==
    PackageStep /\ Track /\ UNCHANGED <<diffVars, envVars, installedPkgs, queueVars>>

Spec == InitPackage /\ [][NextPackage]_vars

----------------------------------------------------------------------------
\* trivial_diff alone: the commit tagged reviewed holds the root commit's
\* empty tree or a published recipe, the working tree any set of lines, and
\* trivial_diff is applied to the diff between the two.

InitDiff ==
    /\ PackagesIdle
    /\ diffOld \in Releases \cup {EmptyTree}
    /\ diffNew \in SUBSET LineIds
    /\ diffResult = "idle"
    /\ InstallIdle

Classify ==
    /\ diffResult = "idle"
    /\ diffResult' = IF TrivialDiffText(DiffLines(diffOld, diffNew))
                     THEN "trivial" ELSE "non-trivial"
    /\ UNCHANGED <<diffOld, diffNew, pkgVars, envVars, installedPkgs, queueVars>>

NextDiff == Classify

SpecDiff == InitDiff /\ [][NextDiff]_vars

----------------------------------------------------------------------------
\* The repository and the install queue (repository.py, install.py).  The
\* steps of a call thread a record w through the code:
\*   pk, db    as the variables of the same name
\*   q         Install.to_install
\*   deps      Install.dependencies: deps[n] lists who requires n
\*   pdeps     Install._pacman_dependencies
\*   probes    the names the AUR was asked about, in order
\*   warned    the names logger.warn was called for by the repository
\*   raised    the exception that ended the call, "" when none did

MaxArgs == 2

NameOrder == <<"a", "b", "c">>

\* The lists all_depends() may yield for the recipe of n: the other names, in
\* any number and any order, none twice.
DependsLists(n) ==
    {s \in UNION {[1..k -> Names \ {n}] : k \in 0..(Cardinality(Names) - 1)} :
        \A i, j \in DOMAIN s : s[i] = s[j] => i = j}

\* The dependency graphs: a list for the recipe of every package.
DependsGraphs == {d \in [Names -> UNION {DependsLists(n) : n \in Names}] :
                    \A n \in Names : d[n] \in DependsLists(n)}

World(p, d, i) ==
    [pk |-> p, db |-> d, q |-> i.to_install, deps |-> i.dependencies,
     pdeps |-> i._pacman_dependencies, probes |-> <<>>, warned |-> <<>>, raised |-> ""]

\* pacman.installed(name)
Installed(n) == n \in installedPkgs

\* AurPackage.__init__ raises NotInAURException for a name that the sync
\* databases satisfy or that the AUR does not know.
InAur(n) == index[n] = "aur"

\* Mutant: the type is recorded as the caller passed it.
Register_RecordsHint(w, name, type) ==
    With(Construct(w.pk[name], None, TRUE), LAMBDA r :
        IF r.raised # ""
        THEN [w EXCEPT !.pk[name] = Closed(r.g), !.raised = r.raised]
        ELSE [w EXCEPT !.pk[name] = r.g, !.db[name] = type])

\* The constructor call of Repository.package on the directory of name: an
\* AurPackage or a Package, which repository.py builds without a provider
\* class; then the type is recorded and the Package kept as open.
Register(w, name, type) ==
    With(Construct(w.pk[name], None, TRUE), LAMBDA r :
        IF r.raised # ""
        THEN [w EXCEPT !.pk[name] = Closed(r.g), !.raised = r.raised]
        ELSE [w EXCEPT !.pk[name] = r.g,
                       !.db[name] = IF type = "default" THEN "aur" ELSE type])

\* Mutant: a type passed by the caller wins over the recorded one.
ResolvedType_HintWins(w, name, hint) ==
    IF hint # "default" THEN hint
    ELSE IF w.db[name] # "" THEN w.db[name] ELSE hint

\* Repository.package: the recorded type wins over the argument
ResolvedType(w, name, hint) == IF w.db[name] # "" THEN w.db[name] ELSE hint

\* Mutant: with the default type the Package is made and recorded before the
\* AUR is asked.
Resolve_ConstructsFirst(w, name, hint) ==
    With(ResolvedType(w, name, hint), LAMBDA type :
        IF type \notin {"aur", "manual", "default"} THEN [w EXCEPT !.raised = "ValueError"]
        ELSE IF type = "manual" THEN Register(w, name, type)
        ELSE With(Register([w EXCEPT !.probes = Append(@, name)], name, type), LAMBDA p :
                IF type = "default" /\ ~InAur(name) /\ p.raised = ""
                THEN [p EXCEPT !.raised = "PackageNotInRepositoryException"]
                ELSE p))

\* Mutant: a name recorded as aur that the AUR does not hold any more is an
\* error, as it is with the default type.
Resolve_MissingAurRaises(w, name, hint) ==
    With(ResolvedType(w, name, hint), LAMBDA type :
        IF type \notin {"aur", "manual", "default"} THEN [w EXCEPT !.raised = "ValueError"]
        ELSE IF type = "manual" THEN Register(w, name, type)
        ELSE With([w EXCEPT !.probes = Append(@, name)], LAMBDA p :
                IF InAur(name) THEN Register(p, name, type)
                ELSE [p EXCEPT !.raised = "PackageNotInRepositoryException"]))

\* Repository.package for a name that is not open.  aur and default ask the
\* AUR; for a name that is not there default raises, and aur makes a Package
\* and warns.
Resolve(w, name, hint) ==
    With(ResolvedType(w, name, hint), LAMBDA type :
        IF type \notin {"aur", "manual", "default"} THEN [w EXCEPT !.raised = "ValueError"]
        ELSE IF type = "manual" THEN Register(w, name, type)
        ELSE With([w EXCEPT !.probes = Append(@, name)], LAMBDA p :
                IF InAur(name) THEN Register(p, name, type)
                ELSE IF type = "default"
                THEN [p EXCEPT !.raised = "PackageNotInRepositoryException"]
                ELSE With(Register(p, name, type), LAMBDA r :
                        IF r.raised # "" THEN r
                        ELSE [r EXCEPT !.warned = Append(@, name)])))

\* Mutant: the open Package is returned for the default type only.
RepositoryPackage_CachedForDefault(w, name, hint) ==
    IF w.pk[name].open /\ hint = "default" THEN w ELSE Resolve(w, name, hint)

\* Repository.package(name, type): the open Package when there is one
RepositoryPackage(w, name, hint) ==
    IF w.pk[name].open THEN w ELSE Resolve(w, name, hint)

\* Repository.package(name)
RepoPackage(w, name) == RepositoryPackage(w, name, "default")

\* Package.upgrade_available.  newer: the version upstream is greater than
\* the installed one.
UpgradeAvailable(g, n, newer) ==
    IF g.provider = None THEN FALSE ELSE Installed(n) /\ newer

InQueue(q, n) == \E i \in 1..Len(q) : q[i] = n

RECURSIVE AddPackage(_, _, _, _)
RECURSIVE UpdateDepsFrom(_, _, _)

\* Mutant: the package is recorded as a dependent of a dependency that the
\* repository does not resolve, too.
UpdateDepsFrom_RecordsUnresolved(w, n, i) ==
    IF i > Len(depends[n]) THEN w
    ELSE LET dep == depends[n][i]
         IN  With(RepoPackage(w, dep), LAMBDA r :
                IF r.raised = "PackageNotInRepositoryException"
                THEN UpdateDepsFrom([r EXCEPT !.raised = "", !.pdeps[n] = Append(@, dep),
                                              !.deps[dep] = Append(@, n)],
                                    n, i + 1)
                ELSE IF r.raised # "" THEN r
                ELSE With(AddPackage(r, dep, FALSE, TRUE), LAMBDA a :
                        IF a.raised # "" THEN a
                        ELSE UpdateDepsFrom([a EXCEPT !.deps[dep] = Append(@, n)], n, i + 1)))

\* The loop of Install._update_deps, from the i-th dependency on
UpdateDepsFrom(w, n, i) ==
    IF i > Len(depends[n]) THEN w
    ELSE LET dep == depends[n][i]
         IN  With(RepoPackage(w, dep), LAMBDA r :
                IF r.raised = "PackageNotInRepositoryException"
                THEN UpdateDepsFrom([r EXCEPT !.raised = "", !.pdeps[n] = Append(@, dep)],
                                    n, i + 1)
                ELSE IF r.raised # "" THEN r
                ELSE With(AddPackage(r, dep, FALSE, TRUE), LAMBDA a :
                        IF a.raised # "" THEN a
                        ELSE UpdateDepsFrom([a EXCEPT !.deps[dep] = Append(@, n)], n, i + 1)))

\* Install._update_deps
UpdateDeps(w, n) ==
    With(Pkgbuild(w.pk[n]), LAMBDA pb :
        IF pb.raised # "" THEN [w EXCEPT !.raised = pb.raised]
        ELSE UpdateDepsFrom([w EXCEPT !.pk[n] = pb.g], n, 1))

\* Mutant: force also queues a package that is queued already.
AddPackage_ForceQueuesAgain(w, n, force, install_before) ==
    IF ~force /\ Installed(n) THEN w
    ELSE IF ~force /\ InQueue(w.q, n) THEN w
    ELSE UpdateDeps([w EXCEPT !.q = IF install_before THEN <<n>> \o @ ELSE Append(@, n)], n)

\* Mutant: an installed package that is not forced is not queued, but its
\* dependencies are walked.
AddPackage_WalksInstalled(w, n, force, install_before) ==
    IF InQueue(w.q, n) THEN w
    ELSE IF ~force /\ Installed(n) THEN UpdateDeps(w, n)
    ELSE UpdateDeps([w EXCEPT !.q = IF install_before THEN <<n>> \o @ ELSE Append(@, n)], n)

\* Mutant: a forced call walks the dependencies of a queued package again.
AddPackage_ForceWalksAgain(w, n, force, install_before) ==
    IF ~force /\ Installed(n) THEN w
    ELSE IF InQueue(w.q, n) THEN (IF force THEN UpdateDeps(w, n) ELSE w)
    ELSE UpdateDeps([w EXCEPT !.q = IF install_before THEN <<n>> \o @ ELSE Append(@, n)], n)

\* Install.add_package
AddPackage(w, n, force, install_before) ==
    IF ~force /\ Installed(n) THEN w
    ELSE IF InQueue(w.q, n) THEN w
    ELSE UpdateDeps([w EXCEPT !.q = IF install_before THEN <<n>> \o @ ELSE Append(@, n)], n)

RECURSIVE AddPackagesFrom(_, _, _)

\* Mutant: the requested packages are added without force.
AddPackagesFrom_NotForced(w, pkgs, i) ==
    IF i > Len(pkgs) THEN w
    ELSE With(RepoPackage(w, pkgs[i]), LAMBDA r :
            IF r.raised # "" THEN r
            ELSE With(AddPackage(r, pkgs[i], FALSE, FALSE), LAMBDA a :
                    IF a.raised # "" THEN a ELSE AddPackagesFrom(a, pkgs, i + 1)))

\* The loop of Install.add_packages, from the i-th name on
AddPackagesFrom(w, pkgs, i) ==
    IF i > Len(pkgs) THEN w
    ELSE With(RepoPackage(w, pkgs[i]), LAMBDA r :
            IF r.raised # "" THEN r
            ELSE With(AddPackage(r, pkgs[i], TRUE, FALSE), LAMBDA a :
                    IF a.raised # "" THEN a ELSE AddPackagesFrom(a, pkgs, i + 1)))

\* Install.add_packages
AddPackages(w, pkgs) == AddPackagesFrom(w, pkgs, 1)

\* pacman.get_foreign_packages: the installed packages that no sync database
\* holds
ForeignPackages == SelectSeq(NameOrder, LAMBDA n : Installed(n) /\ index[n] # "sync")

RECURSIVE UpdateAurFrom(_, _, _, _)

\* Mutant: the scan ends at the first foreign package that does not resolve.
UpdateAurFrom_StopsAtUnresolved(w, names, i, newer) ==
    IF i > Len(names) THEN w
    ELSE With(RepoPackage(w, names[i]), LAMBDA r :
            IF r.raised = "PackageNotInRepositoryException" THEN w
            ELSE IF r.raised # "" THEN r
            ELSE IF UpgradeAvailable(r.pk[names[i]], names[i], names[i] \in newer)
            THEN With(AddPackage(r, names[i], TRUE, FALSE), LAMBDA a :
                    IF a.raised # "" THEN a ELSE UpdateAurFrom(a, names, i + 1, newer))
            ELSE UpdateAurFrom(r, names, i + 1, newer))

\* The loop of Install.update_aur, from the i-th foreign package on
UpdateAurFrom(w, names, i, newer) ==
    IF i > Len(names) THEN w
    ELSE With(RepoPackage(w, names[i]), LAMBDA r :
            IF r.raised = "PackageNotInRepositoryException"
            THEN UpdateAurFrom([r EXCEPT !.raised = ""], names, i + 1, newer)
            ELSE IF r.raised # "" THEN r
            ELSE IF UpgradeAvailable(r.pk[names[i]], names[i], names[i] \in newer)
            THEN With(AddPackage(r, names[i], TRUE, FALSE), LAMBDA a :
                    IF a.raised # "" THEN a ELSE UpdateAurFrom(a, names, i + 1, newer))
            ELSE UpdateAurFrom(r, names, i + 1, newer))

\* Install.update_aur
UpdateAur(w, newer) == UpdateAurFrom(w, ForeignPackages, 1, newer)

\* An exception that nothing catches ends the process: the Install object and
\* every Package object are gone, the directories and the type database stay.
AllClosed(p) == [n \in Names |-> Closed(p[n])]

\* The variables after a call on the Install object that left w.  again: the
\* call asked for a package that was queued already, or for one twice.
AfterInstallCall(w, again) ==
    /\ db' = w.db
    /\ IF w.raised # ""
       THEN /\ pk' = AllClosed(w.pk)
            /\ inst' = NoInstall
       ELSE /\ pk' = w.pk
            /\ inst' = [inst EXCEPT !.to_install = w.q,
                                    !.dependencies = w.deps,
                                    !._pacman_dependencies = w.pdeps,
                                    !.repeated = @ \/ again]

\* A directory fetched at release r by a process that had a provider, and
\* reviewed there.
DirReleased(r) == Closed(ValidateReview(Construct(NoDir, Some(r), TRUE).g))

\* The same directory after upstream published r2 and a process with a
\* provider fetched it: upstream holds r2, master and reviewed stay behind.
DirUpdated(r1, r2) ==
    Closed(UpdateFromUpstream(Construct(DirReleased(r1), Some(r2), TRUE).g, TRUE).g)

\* The argument lists of a command: at least one name, at most MaxArgs.
ArgLists == UNION {[1..k -> Names] : k \in 1..MaxArgs}

\* Does the list pkgs name a package of the queue q, or one package twice
AsksAgain(q, pkgs) ==
    \/ \E i \in DOMAIN pkgs : InQueue(q, pkgs[i])
    \/ \E i, j \in DOMAIN pkgs : i # j /\ pkgs[i] = pkgs[j]

\* The queue alone: an Install object over a repository whose directories of a
\* and b hold a fetched recipe, for every dependency graph.  The directory
\* and the recipe of c matter only when the AUR holds c: no other name is
\* ever opened.
InitInstall ==
    /\ pk \in {[n \in Names |-> IF n = "c" THEN d ELSE DirReleased({"pkgver10", "pkgrel"})] :
                d \in {NoDir, DirReleased({"pkgver10", "pkgrel"})}}
    /\ last = NoCall
    /\ validated = [n \in Names |-> None]
    /\ DiffIdle
    /\ depends \in DependsGraphs
    /\ index \in {[n \in Names |-> IF n = "c" THEN x ELSE "aur"] : x \in {"aur", "sync", "none"}}
    /\ index["c"] # "aur" => pk["c"] = NoDir /\ depends["c"] = <<>>
    /\ installedPkgs \in SUBSET {"b", "c"}
    /\ db = [n \in Names |-> ""]
    /\ inst = NoInstall
    /\ cli = CliIdle

\* Mutant: the installed dependencies are reported too.
PacmanDependencies_All(pdeps) ==
    [dep \in Names |->
        {package \in Names : \E i \in DOMAIN pdeps[package] : pdeps[package][i] = dep}]

\* Install.pacman_dependencies over the recorded map pdeps: for every
\* dependency that is not installed, the packages it was recorded for.  The
\* lists are held by their members: their order is the one of the dict's
\* keys, which the record of the map by package name does not keep.
PacmanDependencies(pdeps) ==
    [dep \in Names |->
        IF Installed(dep) THEN {}
        ELSE {package \in Names : \E i \in DOMAIN pdeps[package] : pdeps[package][i] = dep}]

\* The record of a call on the Install object that left w: the package of
\* add_package and its force, the names of add_packages, the foreign packages
\* that update_aur found newer upstream, the exception raised, the names the
\* AUR was asked about, and the map pacman_dependencies returned.
InstallCall(op, n, force, pkgs, newer, w, pending) ==
    [op |-> op, name |-> n, force |-> force, pkgs |-> pkgs, newer |-> newer,
     raised |-> w.raised, probes |-> w.probes, pending |-> pending]

\* No call on the Install object yet
NoInstallCall ==
    [op |-> "none", name |-> "", force |-> FALSE, pkgs |-> <<>>, newer |-> {},
     raised |-> "", probes |-> <<>>, pending |-> [n \in Names |-> {}]]

\* last after a call: the record of the call where calls are recorded
Recorded(rec, call) == last' = IF rec THEN call ELSE last

\* Install(repo)
NewInstall ==
    /\ ~inst.live
    /\ inst' = [NoInstall EXCEPT !.live = TRUE]
    /\ UNCHANGED <<pk, db>>

\* installer.add_packages(pkgs)
DoAddPackages(rec) ==
    /\ inst.live
    /\ \E pkgs \in ArgLists :
          \E w \in {AddPackages(World(pk, db, inst), pkgs)} :
              /\ AfterInstallCall(w, AsksAgain(inst.to_install, pkgs))
              /\ Recorded(rec, InstallCall("add_packages", "", TRUE, pkgs, {}, w,
                                               NoInstallCall.pending))

\* installer.add_package(repo.package(n), force, install_before)
DoAddPackage(rec) ==
    /\ inst.live
    /\ \E n \in Names, force \in BOOLEAN, install_before \in BOOLEAN :
          \E r \in {RepoPackage(World(pk, db, inst), n)} :
              \E w \in {IF r.raised # "" THEN r ELSE AddPackage(r, n, force, install_before)} :
                  /\ AfterInstallCall(w, InQueue(inst.to_install, n))
                  /\ Recorded(rec, InstallCall("add_package", n, force, <<>>, {}, w,
                                               NoInstallCall.pending))

\* installer.update_aur()
DoUpdateAur(rec) ==
    /\ inst.live
    /\ \E newer \in SUBSET installedPkgs :
          \E w \in {UpdateAur(World(pk, db, inst), newer)} :
              /\ AfterInstallCall(w, FALSE)
              /\ Recorded(rec, InstallCall("update_aur", "", TRUE, <<>>, newer, w,
                                               NoInstallCall.pending))

\* installer.pacman_dependencies()
DoPacmanDependencies ==
    /\ inst.live
    /\ last' = InstallCall("pacman_dependencies", "", FALSE, <<>>, {}, World(pk, db, inst),
                           PacmanDependencies(inst._pacman_dependencies))
    /\ UNCHANGED <<pk, db, inst>>

\* The process ends without an error.
ExitInstall ==
    /\ inst.live
    /\ pk' = AllClosed(pk)
    /\ inst' = NoInstall
    /\ UNCHANGED db

NextInstall ==
    /\ \/ NewInstall /\ UNCHANGED last
       \/ DoAddPackages(FALSE)
       \/ DoAddPackage(FALSE)
       \/ DoUpdateAur(FALSE)
       \/ ExitInstall /\ UNCHANGED last
    /\ UNCHANGED <<validated, diffVars, depends, index, installedPkgs, cli>>

SpecInstall == InitInstall /\ [][NextInstall]_vars

\* The queue as the command `install` uses it (cli.py): add_packages is the
\* only call made on the Install object.
NextAddPackages ==
    /\ \/ NewInstall /\ UNCHANGED last
       \/ DoAddPackages(FALSE)
       \/ ExitInstall /\ UNCHANGED last
    /\ UNCHANGED <<validated, diffVars, depends, index, installedPkgs, cli>>

SpecAddPackages == InitInstall /\ [][NextAddPackages]_vars

\* The calls on the Install object one by one, each recorded in last, over a
\* repository where b may be unknown to the AUR, c may be unknown to it or
\* held by a sync database, and b and c may be installed.  The names the AUR
\* holds have a directory with a fetched recipe, the other ones have none.
InitCalls ==
    /\ index \in {[n \in Names |-> CASE n = "a" -> "aur" [] n = "b" -> xb [] OTHER -> xc] :
                   xb \in {"aur", "none"}, xc \in {"aur", "sync", "none"}}
    /\ pk = [n \in Names |-> IF InAur(n) THEN DirReleased({"pkgver10", "pkgrel"}) ELSE NoDir]
    /\ last = NoInstallCall
    /\ validated = [n \in Names |-> None]
    /\ DiffIdle
    /\ depends \in {[n \in Names |-> CASE n = "a" -> da [] n = "b" -> dbb [] OTHER -> <<>>] :
                     da \in {<<>>, <<"b">>, <<"b", "c">>}, dbb \in {<<>>, <<"c">>}}
    /\ installedPkgs \in {{}, {"b"}, {"b", "c"}}
    /\ db = [n \in Names |-> ""]
    /\ inst = NoInstall
    /\ cli = CliIdle

NextCalls ==
    /\ \/ NewInstall /\ last' = NoInstallCall
       \/ DoAddPackages(TRUE)
       \/ DoAddPackage(TRUE)
       \/ DoUpdateAur(TRUE)
       \/ DoPacmanDependencies
       \/ ExitInstall /\ last' = NoInstallCall
    /\ UNCHANGED <<validated, diffVars, depends, index, installedPkgs, cli>>

SpecCalls == InitCalls /\ [][NextCalls]_vars

----------------------------------------------------------------------------
\* The command line flow (cli.py): the commands install and update, and
\* review_and_install, which stops at every input() for an answer.  cli holds
\*   pc          where the flow waits: "idle" (no command runs), "confirm",
\*               "show" (before the diff is shown) or "validate"
\*   command     the command that runs or ran last, exit how it ended
\*   to_review   packages_to_review, at the index of the package under review
\*   base        history: the tree of the commit that reviewed named when the
\*               fetch was done, before anything of this run approved a review
\*   auto        history: the packages packages_to_review() approved by itself
\*   answered    history: the packages the user validated with y
\*   built       history: the packages makepkg was run on, and the tree it saw
\*   queue       history: to_install when install() was called
\*   called      history: the packages install() called build_and_install on,
\*               in order, and what each call raised

RECURSIVE FetchAllFrom(_, _, _)

\* The loop of Install.fetch_all, from the i-th package of the queue on
FetchAllFrom(w, i, fetchOk) ==
    IF i > Len(w.q) THEN w
    ELSE With(UpdateFromUpstream(w.pk[w.q[i]], fetchOk), LAMBDA u :
            IF u.raised # "" THEN [w EXCEPT !.pk[w.q[i]] = u.g, !.raised = u.raised]
            ELSE FetchAllFrom([w EXCEPT !.pk[w.q[i]] = ApplyModifications(u.g)],
                              i + 1, fetchOk))

\* Install.fetch_all
FetchAll(w, fetchOk) == FetchAllFrom(w, 1, fetchOk)

RECURSIVE PackagesToReviewFrom(_, _, _)

\* Mutant: a package that needs a review is put at the head of the list.
PackagesToReviewFrom_Prepends(x, q, i) ==
    IF i > Len(q) THEN x
    ELSE With(ReviewNeeded(x.pk[q[i]]), LAMBDA r :
            PackagesToReviewFrom(
                [pk |-> [x.pk EXCEPT ![q[i]] = r.g],
                 list |-> IF r.ret = "True" THEN <<q[i]>> \o x.list ELSE x.list,
                 auto |-> IF "tag --force reviewed" \in Range(r.calls)
                          THEN x.auto \cup {q[i]} ELSE x.auto],
                q, i + 1))

\* The loop of Install.packages_to_review over the queue q, from its i-th
\* package on: the directories after it, the packages that need a review and
\* the ones whose review it validated by itself.
PackagesToReviewFrom(x, q, i) ==
    IF i > Len(q) THEN x
    ELSE With(ReviewNeeded(x.pk[q[i]]), LAMBDA r :
            PackagesToReviewFrom(
                [pk |-> [x.pk EXCEPT ![q[i]] = r.g],
                 list |-> IF r.ret = "True" THEN Append(x.list, q[i]) ELSE x.list,
                 auto |-> IF "tag --force reviewed" \in Range(r.calls)
                          THEN x.auto \cup {q[i]} ELSE x.auto],
                q, i + 1))

\* Install.packages_to_review
PackagesToReview(p, q) == PackagesToReviewFrom([pk |-> p, list |-> <<>>, auto |-> {}], q, 1)

RECURSIVE InstallFrom(_, _, _, _, _)

\* Mutant: the loop catches what build_and_install raises and goes on with
\* the next package.
InstallFrom_GoesOn(x, q, i, ok, rw) ==
    IF i > Len(q) THEN x
    ELSE With(BuildAndInstall(x.pk[q[i]], q[i] \in ok, q[i] \in rw), LAMBDA r :
         InstallFrom([pk |-> [x.pk EXCEPT ![q[i]] = r.g],
                      built |-> IF r.built = None THEN x.built
                                ELSE Append(x.built, [name |-> q[i], tree |-> r.built[1]]),
                      called |-> Append(x.called, [name |-> q[i], raised |-> r.raised]),
                      installed |-> IF r.raised = "" THEN x.installed \cup {q[i]}
                                    ELSE x.installed,
                      raised |-> IF x.raised # "" THEN x.raised ELSE r.raised],
                     q, i + 1, ok, rw))

\* The loop of Install.install over the queue q, from its i-th package on.
\* ok: the packages whose build succeeds; rw: the ones whose build rewrites
\* the recipe.  makepkg --install puts a built package in pacman's database.
InstallFrom(x, q, i, ok, rw) ==
    IF i > Len(q) THEN x
    ELSE With(BuildAndInstall(x.pk[q[i]], q[i] \in ok, q[i] \in rw), LAMBDA r :
         With([pk |-> [x.pk EXCEPT ![q[i]] = r.g],
               built |-> IF r.built = None THEN x.built
                         ELSE Append(x.built, [name |-> q[i], tree |-> r.built[1]]),
               called |-> Append(x.called, [name |-> q[i], raised |-> r.raised]),
               installed |-> IF r.raised = "" THEN x.installed \cup {q[i]} ELSE x.installed,
               raised |-> r.raised], LAMBDA y :
            IF y.raised # "" THEN y ELSE InstallFrom(y, q, i + 1, ok, rw)))

\* Install.install
InstallAll(p, q, ok, rw) ==
    InstallFrom([pk |-> p, built |-> <<>>, called |-> <<>>, installed |-> {}, raised |-> ""],
                q, 1, ok, rw)

\* The command is over, by a return or by an exception that nothing catches:
\* the process ends.
Ended(p, c, exit) ==
    /\ pk' = AllClosed(p)
    /\ inst' = NoInstall
    /\ cli' = [c EXCEPT !.pc = "idle", !.exit = exit]

\* installer.install(), the last statement of review_and_install
RunInstall(p, c) ==
    \E x \in {InstallAll(p, inst.to_install, ok, rw) :
                ok \in SUBSET Range(inst.to_install), rw \in SUBSET Range(inst.to_install)} :
        /\ Ended(x.pk, [c EXCEPT !.built = x.built, !.queue = inst.to_install,
                                 !.called = x.called],
                 IF x.raised # "" THEN x.raised ELSE "done")
        /\ installedPkgs' = installedPkgs \cup x.installed

\* The loop over packages_to_review from its at-th package on, up to the
\* next input(): review_package prints the version and the reviewed tag, and
\* waits; after the last package the queue is installed.
ReviewFrom(p, c, at) ==
    IF at > Len(c.to_review) THEN RunInstall(p, c)
    ELSE \E v \in {Version(p[c.to_review[at]])} :
            IF v.raised # ""
            THEN /\ Ended([p EXCEPT ![c.to_review[at]] = v.g], c, v.raised)
                 /\ UNCHANGED installedPkgs
            ELSE /\ pk' = [p EXCEPT ![c.to_review[at]] = v.g]
                 /\ cli' = [c EXCEPT !.pc = "show", !.at = at]
                 /\ UNCHANGED <<inst, installedPkgs>>

\* review_and_install up to its first input(), on the queue that w holds
ReviewAndInstall(w, command) ==
    LET c0 == [CliIdle EXCEPT !.command = command]
    IN  /\ db' = w.db
        /\ UNCHANGED installedPkgs
        /\ IF w.raised # "" THEN Ended(w.pk, c0, w.raised)
           ELSE IF w.q = <<>> THEN Ended(w.pk, c0, "nothing to do")
           ELSE \E f \in {FetchAll(w, fetchOk) : fetchOk \in BOOLEAN} :
                  IF f.raised # "" THEN Ended(f.pk, c0, f.raised)
                  ELSE \E t \in {PackagesToReview(f.pk, f.q)} :
                          /\ pk' = t.pk
                          /\ inst' = [NoInstall EXCEPT !.live = TRUE,
                                                       !.to_install = f.q,
                                                       !.dependencies = f.deps,
                                                       !._pacman_dependencies = f.pdeps]
                          /\ cli' = [c0 EXCEPT
                                       !.pc = "confirm",
                                       !.fetched = f.q,
                                       !.to_review = t.list,
                                       !.auto = t.auto,
                                       !.base = [n \in Names |->
                                                   IF f.pk[n].exists
                                                   THEN TreeOf(f.pk[n], f.pk[n].reviewed)
                                                   ELSE EmptyTree]]

\* The command install
CmdInstall ==
    /\ cli.pc = "idle"
    /\ \E pkgs \in ArgLists :
          \E w \in {AddPackages(World(pk, db, NoInstall), pkgs)} :
              ReviewAndInstall(w, "install")

\* The command update
CmdUpdate ==
    /\ cli.pc = "idle"
    /\ \E w \in {UpdateAur(World(pk, db, NoInstall), newer) : newer \in SUBSET installedPkgs} :
          ReviewAndInstall(w, "update")

\* Mutant: an answer other than y ends the command after the queue was
\* installed.
AnswerConfirm_InstallsFirst ==
    /\ cli.pc = "confirm"
    /\ UNCHANGED db
    /\ \E answer \in {"y", "n"} :
          IF answer # "y"
          THEN \E x \in {InstallAll(pk, inst.to_install, Range(inst.to_install), {})} :
                  /\ Ended(x.pk, [cli EXCEPT !.built = x.built, !.queue = inst.to_install,
                                             !.called = x.called], "declined")
                  /\ installedPkgs' = installedPkgs \cup x.installed
          ELSE ReviewFrom(pk, cli, 1)

\* The answer to 'Do you confirm (y|n)'
AnswerConfirm ==
    /\ cli.pc = "confirm"
    /\ UNCHANGED db
    /\ \E answer \in {"y", "n"} :
          IF answer # "y" THEN Ended(pk, cli, "declined") /\ UNCHANGED installedPkgs
          ELSE ReviewFrom(pk, cli, 1)

\* The answer to 'About to show diff ...': the diff is shown
AnswerShow ==
    /\ cli.pc = "show"
    /\ cli' = [cli EXCEPT !.pc = "validate"]
    /\ UNCHANGED <<pk, db, inst, installedPkgs>>

\* The answer to 'Validate review for ...? (y|n)'
AnswerValidate ==
    /\ cli.pc = "validate"
    /\ UNCHANGED db
    /\ \E answer \in {"y", "n"} :
          LET n == cli.to_review[cli.at]
          IN  IF answer = "y"
              THEN ReviewFrom([pk EXCEPT ![n] = ValidateReview(pk[n])],
                              [cli EXCEPT !.answered = @ \cup {n}], cli.at + 1)
              ELSE ReviewFrom(pk, cli, cli.at + 1)

\* The recipes a directory may hold when a command starts.
Recipe10 == {"pkgver10", "pkgrel"}

\* The updates of a that an earlier process fetched.  The one with an epoch
\* was committed on upstream and its tag refused: that process ended there,
\* and the directory is still on the branch upstream.
CliUpdates ==
    { {"pkgver11", "pkgrel"},
      {"pkgver11", "pkgrel", "source"},
      {"pkgver11", "pkgrel", "extra"},
      {"pkgver11", "pkgrel", "dashes"},
      {"epoch", "pkgver11", "pkgrel"} }

\* The directories when a command starts: a was fetched and reviewed, and
\* may have an update fetched since; so b, whose update adds a source; c has
\* no directory.
InitCli ==
    /\ pk \in {[n \in Names |-> CASE n = "a" -> da [] n = "b" -> dbb [] OTHER -> NoDir] :
                da \in {DirReleased(Recipe10)} \cup {DirUpdated(Recipe10, r) : r \in CliUpdates},
                dbb \in {DirReleased(Recipe10),
                         DirUpdated(Recipe10, {"pkgver11", "pkgrel", "source"})}}
    /\ last = NoCall
    /\ validated = [n \in Names |-> None]
    /\ DiffIdle
    /\ depends \in {[n \in Names |-> IF n = "a" THEN d ELSE <<>>] : d \in {<<>>, <<"b">>}}
    /\ index = [n \in Names |-> "aur"]
    /\ installedPkgs \in {{}, {"b"}}
    /\ db = [n \in Names |-> ""]
    /\ inst = NoInstall
    /\ cli = CliIdle

NextCli ==
    /\ \/ CmdInstall
       \/ CmdUpdate
       \/ AnswerConfirm
       \/ AnswerShow
       \/ AnswerValidate
    /\ UNCHANGED <<last, validated, diffVars, depends, index>>

SpecCli == InitCli /\ [][NextCli]_vars

----------------------------------------------------------------------------
\* The repository alone (repository.py): package(name, type) called with any
\* name and type.  The directories of a and b exist or not, with any recorded
\* type (a directory or types.db may have been removed by hand since); c is
\* a name never asked for before.

InitRepo ==
    /\ pk \in {p \in [Names -> {NoDir, DirReleased(Recipe10)}] : p["c"] = NoDir}
    /\ last = NoCall
    /\ validated = [n \in Names |-> None]
    /\ DiffIdle
    /\ depends = [n \in Names |-> <<>>]
    /\ index \in [Names -> {"aur", "sync", "none"}]
    /\ installedPkgs = {}
    /\ db \in {d \in [Names -> {"", "aur", "manual"}] : d["c"] = ""}
    /\ inst = NoInstall
    /\ cli = CliIdle

\* repo.package(n, hint), with the types the method knows and one it does
\* not.  What it raises reaches the caller, who may catch it (install.py 22,
\* 49): the Repository object stays.
DoPackage ==
    \E n \in Names, hint \in {"aur", "manual", "default", "devel"} :
        \E w \in {RepositoryPackage(World(pk, db, NoInstall), n, hint)} :
            /\ pk' = w.pk
            /\ db' = w.db
            /\ last' = [op |-> "package", name |-> n, arg |-> hint, raised |-> w.raised,
                        args |-> ExcArgs(w.raised, n),
                        ret |-> IF w.raised # "" THEN ""
                                ELSE IF pk[n].open THEN "open" ELSE "new",
                        calls |-> [i \in DOMAIN w.probes |-> "aur_info"]
                                    \o [i \in DOMAIN w.warned |-> "warn"],
                        built |-> None, after |-> "other"]

\* The process ends: no Package is open any more.
ExitRepo ==
    /\ \E n \in Names : pk[n].open
    /\ pk' = AllClosed(pk)
    /\ last' = NoCall
    /\ UNCHANGED db

NextRepo ==
    /\ \/ DoPackage
       \/ ExitRepo
    /\ UNCHANGED <<validated, diffVars, depends, index, installedPkgs, inst, cli>>

SpecRepo == InitRepo /\ [][NextRepo]_vars

\* A directory released at r whose PKGBUILD was edited since and not
\* committed.
DirModified(r) == [DirReleased(r) EXCEPT !.worktree = Rewritten(@)]

\* The repository again, over directories that may hold modified files.
InitRepoModified ==
    /\ pk \in {[n \in Names |-> CASE n = "a" -> da [] n = "b" -> dbb [] OTHER -> NoDir] :
                da \in {NoDir, DirReleased(Recipe10), DirModified(Recipe10)},
                dbb \in {DirReleased(Recipe10), DirModified(Recipe10)}}
    /\ last = NoCall
    /\ validated = [n \in Names |-> None]
    /\ DiffIdle
    /\ depends = [n \in Names |-> <<>>]
    /\ index \in [Names -> {"aur", "none"}]
    /\ installedPkgs = {}
    /\ db \in {d \in [Names -> {"", "aur", "manual"}] : d["c"] = ""}
    /\ inst = NoInstall
    /\ cli = CliIdle

SpecRepoModified == InitRepoModified /\ [][NextRepo]_vars

-----------------------------------------------------------------------------
\* The comparison of versions alone: version_is_greater on two version
\* strings, then upgrade_available of a package whose provider and whose
\* installed version vary.

MaxSegments == 3

\* The dot-separated segments of the versions compared: two numbers whose
\* order as numbers and as text differ, and a segment that is not a number.
Segments == {<<"2">>, <<"1", "0">>, <<"2", "_", "r", "0">>}

\* Their releases: again two numbers that text orders the other way round.
ReleaseTexts == {<<"2">>, <<"1", "0">>}

\* The versions of the tests: 2.0.2-1, 2.0.1-2, 2.12.4-5, 1.0.27.206_r0-1
\* and 1.0.27.206-1.
TestVersions ==
    << <<"2", ".", "0", ".", "2", "-", "1">>,
       <<"2", ".", "0", ".", "1", "-", "2">>,
       <<"2", ".", "1", "2", ".", "4", "-", "5">>,
       <<"1", ".", "0", ".", "2", "7", ".", "2", "0", "6", "_", "r", "0", "-", "1">>,
       <<"1", ".", "0", ".", "2", "7", ".", "2", "0", "6", "-", "1">> >>

\* The version strings version_is_greater is called with: every version of
\* up to MaxSegments segments, the versions of the tests, and one without
\* a release.
Versions ==
    LET joined[k \in 1..MaxSegments] ==
            IF k = 1 THEN Segments
            ELSE {t[1] \o <<".">> \o t[2] : t \in joined[k - 1] \X Segments}
    IN  {j \o <<"-">> \o r : j \in UNION {joined[k] : k \in 1..MaxSegments},
                              r \in ReleaseTexts}
            \cup Range(TestVersions) \cup {<<"1", ".", "0">>}

VersionCall(op, v1, v2, provider, isInstalled, r) ==
    [op |-> op, v1 |-> v1, v2 |-> v2, provider |-> provider, installed |-> isInstalled,
     raised |-> r.raised, ret |-> r.ret]

NoVersionCall == VersionCall("none", <<>>, <<>>, FALSE, FALSE, [raised |-> "", ret |-> FALSE])

\* The two arguments of the call to come are in last.v1 and last.v2.
InitVersion ==
    /\ pk = [n \in Names |-> NoDir]
    /\ last \in {[NoVersionCall EXCEPT !.v1 = v1, !.v2 = v2] :
                    v1 \in Versions, v2 \in Versions}
    /\ validated = [n \in Names |-> None]
    /\ DiffIdle
    /\ depends = [n \in Names |-> <<>>]
    /\ index = [n \in Names |-> "none"]
    /\ installedPkgs = {}
    /\ db = [n \in Names |-> ""]
    /\ inst = NoInstall
    /\ cli = CliIdle

DoVersionIsGreater ==
    /\ last' = VersionCall("version_is_greater", last.v1, last.v2, FALSE, FALSE,
                           VersionIsGreater(last.v1, last.v2))
    /\ UNCHANGED <<pk, validated, diffOld, diffNew, diffResult, depends, index,
                   installedPkgs, db, inst, cli>>

NextVersion == DoVersionIsGreater

SpecVersion == InitVersion /\ [][NextVersion]_vars

\* Mutant: a version that is not older than the installed one is an upgrade.
UpgradeAvailableVersion_NotOlder(g, pkg) ==
    IF g.provider = None \/ pkg = None THEN [raised |-> "", ret |-> FALSE]
    ELSE With(VersionIsGreater(pkg[1], AurVersion(g.provider[1])), LAMBDA r :
            [raised |-> r.raised, ret |-> r.raised = "" /\ ~r.ret])

\* Package.upgrade_available with the comparison carried out.  pkg: what
\* installed(name) returns, None or the version of the installed package.
UpgradeAvailableVersion(g, pkg) ==
    IF g.provider = None \/ pkg = None THEN [raised |-> "", ret |-> FALSE]
    ELSE VersionIsGreater(AurVersion(g.provider[1]), pkg[1])

\* The versions the local database may hold of a package: those above and
\* the ones upstream has published.
InstalledVersions == Versions \cup {AurVersion(r) : r \in Published}

\* A Package over a released directory, with or without a provider, of a
\* name that is installed or not.
InitUpgrade ==
    /\ pk \in {[n \in Names |-> IF n = Subject
                                 THEN Construct(DirReleased(Recipe10), p, TRUE).g
                                 ELSE NoDir] : p \in Providers}
    /\ last = NoVersionCall
    /\ validated = [n \in Names |-> None]
    /\ DiffIdle
    /\ depends = [n \in Names |-> <<>>]
    /\ index = [n \in Names |-> "none"]
    /\ installedPkgs \in {{}, {Subject}}
    /\ db = [n \in Names |-> ""]
    /\ inst = NoInstall
    /\ cli = CliIdle

DoUpgradeAvailable ==
    \E pkg \in IF Installed(Subject) THEN {Some(v) : v \in InstalledVersions} ELSE {None} :
        /\ last' = VersionCall("upgrade_available",
                               IF pk[Subject].provider = None THEN <<>>
                               ELSE AurVersion(pk[Subject].provider[1]),
                               IF pkg = None THEN <<>> ELSE pkg[1],
                               pk[Subject].provider # None, pkg # None,
                               UpgradeAvailableVersion(pk[Subject], pkg))
        /\ UNCHANGED <<pk, validated, diffOld, diffNew, diffResult, depends, index,
                       installedPkgs, db, inst, cli>>

NextUpgrade == DoUpgradeAvailable

SpecUpgrade == InitUpgrade /\ [][NextUpgrade]_vars

----------------------------------------------------------------------------
\* The claims on the review gate.

\* The prefixes of the lines a trivial diff may change: pkgver and the sums.
VersionAndSumPrefixes == {PfxPkgver, PfxMd5, PfxSha256, PfxSha512, PfxSha1}

\* The lines that a diff from old to new adds or removes.
ChangedIds(old, new) == (old \ new) \cup (new \ old)

\* C1: build_and_install on a package for which review_needed() is true
\* raises the not-reviewed error and runs neither makepkg, nor git clean, nor
\* git reset.
C1_NoBuildWhenReviewNeeded ==
    [][\A n \in Names :
        (last'.op = "build_and_install" /\ last'.name = n
            /\ ReviewNeeded(pk[n]).ret = "True")
        => /\ last'.raised = "NotReviewedException"
           /\ last'.built = None
           /\ Range(last'.calls) \cap {"makepkg", "clean", "reset"} = {}]_vars

\* A build_and_install that was refused.
C1_Witness ==
    /\ last.op = "build_and_install"
    /\ last.raised = "NotReviewedException"
    /\ pk[last.name].reviewed # pk[last.name].master

\* C31: a build_and_install that ran makepkg ran git clean and git status
\* after it, whether makepkg failed or not; it ends with no tracked file
\* that differs from HEAD, with the commits, master, upstream and the
\* checked-out branch as they were and reviewed where review_needed left it;
\* a tree that the build left dirty was reset after a warning, and the only
\* exception that may leave the call is the failure of makepkg.
C31_CleanUpAfterEveryBuild ==
    [][\A n \in Names :
        (last'.op = "build_and_install" /\ last'.name = n /\ last'.built # None)
        => /\ \E i \in DOMAIN last'.calls :
                 /\ last'.calls[i] = "makepkg"
                 /\ i + 2 <= Len(last'.calls)
                 /\ last'.calls[i + 1] = "clean"
                 /\ last'.calls[i + 2] = "status"
                 /\ Len(last'.calls) > i + 2
                    => SubSeq(last'.calls, i + 3, Len(last'.calls)) = <<"warn", "reset">>
           /\ ~Status(pk'[n])
           /\ pk'[n].commits = pk[n].commits
           /\ pk'[n].master = pk[n].master
           /\ pk'[n].upstream = pk[n].upstream
           /\ pk'[n].head = pk[n].head
           /\ pk'[n].reviewed = ReviewNeeded(pk[n]).g.reviewed
           /\ pk'[n].worktree = last'.built[1]
           /\ last'.raised \in {"", "CalledProcessError"}]_vars

\* A build that failed after it rewrote the recipe: the tree was reset, and
\* the failure of makepkg left the call.
C31_Witness ==
    /\ last.op = "build_and_install"
    /\ last.built # None
    /\ "reset" \in Range(last.calls)
    /\ last.raised = "CalledProcessError"
    /\ ~Status(pk[last.name])

\* C35: whenever build_and_install runs makepkg, the files makepkg works on
\* are those of the commit tagged reviewed: the branch checked out is master
\* and the tip of master is that commit, whatever was called before, a
\* fetch that failed included.
C35_BuildsTheReviewedCommit ==
    [][\A n \in Names :
        (last'.op = "build_and_install" /\ last'.name = n /\ last'.built # None)
        => /\ pk'[n].head = "master"
           /\ pk'[n].master = pk'[n].reviewed
           /\ last'.built[1] = TreeOf(pk'[n], pk'[n].reviewed)]_vars

\* C36: update_from_upstream and apply_modifications leave the tag reviewed
\* where it is; and once the two have brought a new upstream version to
\* master that differs from the reviewed commit in a line that sets neither
\* pkgver nor a sum, review_needed() is true of the package, which puts it
\* in packages_to_review(), and build_and_install refuses it.
C36_FetchLeavesReviewPending ==
    [][\A n \in Names :
        /\ (last'.op \in {"update_from_upstream", "apply_modifications"} /\ last'.name = n)
            => pk'[n].reviewed = pk[n].reviewed
        /\ (/\ Fetched(last) /\ last.name = n
            /\ last'.op = "apply_modifications" /\ last'.name = n
            /\ \E id \in ChangedIds(TreeOf(pk'[n], pk'[n].reviewed),
                                    TreeOf(pk'[n], pk'[n].master)) :
                    ~StartsWithAny(Text(id), {p \o <<"=">> : p \in VersionAndSumPrefixes}, 0))
            => /\ ReviewNeeded(pk'[n]).ret = "True"
               /\ BuildAndInstall(pk'[n], TRUE, FALSE).raised = "NotReviewedException"]_vars

C5_TrivialOnlyIfWhitelisted ==
    diffResult = "trivial"
        => \A id \in ChangedIds(diffOld, diffNew) :
                StartsWithAny(Text(id), VersionAndSumPrefixes, 0)

\* C6: a diff that only removes pkgver=1.0 and adds pkgver=1.1 is trivial;
\* with source=newurl added as well it is not.
C6_PkgverBumpTrivial ==
    diffResult # "idle"
        => /\ (diffOld \ diffNew = {"pkgver10"} /\ diffNew \ diffOld = {"pkgver11"})
                => diffResult = "trivial"
           /\ (diffOld \ diffNew = {"pkgver10"} /\ diffNew \ diffOld = {"pkgver11", "source"})
                => diffResult = "non-trivial"

\* The version bump of C6, classified.
C6_Witness ==
    /\ diffOld \ diffNew = {"pkgver10"}
    /\ diffNew \ diffOld = {"pkgver11"}
    /\ diffResult = "trivial"

\* C7: when the diff against reviewed adds the line pkgver_extra=evil,
\* review_needed returns true and does not move the tag reviewed.
C7_ExtraLineNeedsReview ==
    [][\A n \in Names :
        (last'.op = "review_needed" /\ last'.name = n
            /\ pk[n].reviewed # pk[n].master
            /\ "extra" \in pk[n].worktree \ TreeOf(pk[n], pk[n].reviewed))
        => /\ last'.ret = "True"
           /\ pk'[n].reviewed = pk[n].reviewed]_vars

\* C8: review_needed returns true iff the commit tagged reviewed is not the
\* tip of master and the diff between the two is not trivial; when they differ
\* and the diff is trivial it returns false and reviewed is then the tip of
\* master.
C8_ReviewNeededIff ==
    [][\A n \in Names :
        (last'.op = "review_needed" /\ last'.name = n)
        => LET g == pk[n]
               differ == g.reviewed # g.master
               trivial == TrivialDiffText(DiffLines(TreeOf(g, g.reviewed), TreeOf(g, g.master)))
           IN  /\ (last'.ret = "True") <=> (differ /\ ~trivial)
               /\ (differ /\ trivial)
                    => (last'.ret = "False" /\ pk'[n].reviewed = pk'[n].master)]_vars

\* C9: right after a review_needed that approved a trivial diff, another
\* review_needed returns false and moves no tag and no branch.
C9_AutoApprovalIdempotent ==
    [][\A n \in Names :
        (last.name = n /\ AutoApproved(last)
            /\ last'.op = "review_needed" /\ last'.name = n)
        => /\ last'.ret = "False"
           /\ pk'[n].reviewed = pk[n].reviewed
           /\ pk'[n].vtags = pk[n].vtags
           /\ pk'[n].master = pk[n].master
           /\ pk'[n].upstream = pk[n].upstream
           /\ pk'[n].head = pk[n].head]_vars

\* A review_needed called right after one that approved a trivial diff.
C9_Witness ==
    /\ last.op = "review_needed"
    /\ last.after = "auto-approval"
    /\ last.ret = "False"

----------------------------------------------------------------------------
\* The claims on update_from_upstream.

\* The version tags of a directory: every tag but reviewed and empty.
VersionTags(g) == {t \in g.vtags : t.name # TagEmpty}

\* C12: update_from_upstream on a package with a provider, the download
\* succeeding: when no version is recorded on upstream or it differs from the
\* provider's, the call fetches, makes exactly one commit on upstream whose
\* message is the provider's version and tags that commit with it; when the
\* two are equal it fetches, commits and tags nothing.
C12_UpdateCommitsAndTags ==
    [][\A n \in Names :
        (last'.op = "update_from_upstream" /\ last'.name = n
            /\ pk[n].provider # None /\ last'.raised # "URLError")
        => LET g == pk[n]
               h == pk'[n]
               recorded == Version(SwitchBranch(g, "upstream")).version
               new_version == AurVersion(g.provider[1])
           IN  IF recorded = None \/ recorded[1] # new_version
               THEN /\ "fetch" \in Range(last'.calls)
                    /\ Len(h.commits) = Len(g.commits) + 1
                    /\ h.upstream = Len(h.commits)
                    /\ h.commits[h.upstream].msg = new_version
                    /\ h.vtags = g.vtags \cup {[name |-> new_version, at |-> h.upstream]}
                    /\ h.vtags # g.vtags
               ELSE /\ Range(last'.calls) \cap {"fetch", "add", "commit", "tag"} = {}
                    /\ h.commits = g.commits
                    /\ h.vtags = g.vtags]_vars

\* C13: when a call of update_from_upstream on a package with a provider
\* ends, by a return or by an exception of the fetch, the commit or the tag,
\* the checked-out branch is master.
C13_EndsOnMaster ==
    [][\A n \in Names :
        (last'.op = "update_from_upstream" /\ last'.name = n /\ pk[n].provider # None)
        => pk'[n].head = "master"]_vars

\* C14, as stated: when update_from_upstream returns, the content of the tip
\* of master is the snapshot at the tip of upstream.
C14_MasterHoldsFetched ==
    [][\A n \in Names :
        (last'.op = "update_from_upstream" /\ last'.name = n
            /\ pk[n].provider # None /\ last'.raised = "")
        => TreeOf(pk'[n], pk'[n].master) = TreeOf(pk'[n], pk'[n].upstream)]_vars

\* C14, amended: update_from_upstream does not move master; the
\* apply_modifications called right after an update_from_upstream that
\* returned leaves master checked out at the tip of upstream, which holds the
\* provider's snapshot when that update_from_upstream fetched.
C14_MasterHoldsFetchedAfterApply ==
    [][\A n \in Names :
        /\ (last'.op = "update_from_upstream" /\ last'.name = n)
              => pk'[n].master = pk[n].master
        /\ (last.op = "update_from_upstream" /\ last.name = n
                /\ last.raised = "" /\ last.ret = "None"
                /\ last'.op = "apply_modifications" /\ last'.name = n)
              => /\ pk'[n].head = "master"
                 /\ pk'[n].master = pk'[n].upstream
                 /\ pk'[n].worktree = TreeOf(pk'[n], pk'[n].upstream)
                 /\ Fetched(last) => TreeOf(pk'[n], pk'[n].master) = pk[n].provider[1]]_vars

\* An apply_modifications right after an update_from_upstream that fetched a
\* recipe the commit tagged reviewed does not hold.
C14_Witness ==
    /\ last.op = "apply_modifications"
    /\ last.after = "fetch"
    /\ pk[last.name].master = pk[last.name].upstream
    /\ pk[last.name].master # pk[last.name].reviewed
    /\ HasPKGBUILD(TreeOf(pk[last.name], pk[last.name].master))

\* C15: every commit of upstream but the root carries exactly one version
\* tag, no version tags two commits, and an update_from_upstream called
\* while the provider's version is the one committed last on upstream adds
\* no commit and raises nothing.
C15_OneCommitPerVersion ==
    /\ [](\A n \in Names :
            /\ \A c \in 2..Len(pk[n].commits) :
                  Cardinality({t \in VersionTags(pk[n]) : t.at = c}) = 1
            /\ \A t1, t2 \in VersionTags(pk[n]) : t1.name = t2.name => t1.at = t2.at)
    /\ [][\A n \in Names :
            (last'.op = "update_from_upstream" /\ last'.name = n
                /\ pk[n].provider # None
                /\ pk[n].commits[pk[n].upstream].msg = AurVersion(pk[n].provider[1]))
            => /\ last'.raised = ""
               /\ pk'[n].commits = pk[n].commits]_vars

----------------------------------------------------------------------------
\* The claims on the constructor of Package.

\* C23: the not-reviewed error of build_and_install, the dirty-tree error of
\* the constructor and the PackageNotInRepository error of Repository.package
\* each carry the name of the package they concern.
C23_FatalErrorsNameThePackage ==
    last.raised \in {"NotReviewedException", "WorkingDirNotCleanException",
                     "PackageNotInRepositoryException"}
    => last.name \in Range(last.args)

\* C18: Package(...) over an existing directory whose tracked files differ
\* from HEAD raises WorkingDirNotCleanException after git status alone: no
\* Package object is made, and the commits, the branches, the tags and the
\* working tree stay as they were.
C18_DirtyTreeIsFatal ==
    [][\A n \in Names :
        (last'.op = "init" /\ last'.name = n /\ pk[n].exists /\ Status(pk[n]))
        => /\ last'.raised = "WorkingDirNotCleanException"
           /\ last'.calls = <<"status">>
           /\ ~pk'[n].open
           /\ pk'[n].commits = pk[n].commits
           /\ pk'[n].master = pk[n].master
           /\ pk'[n].upstream = pk[n].upstream
           /\ pk'[n].head = pk[n].head
           /\ pk'[n].reviewed = pk[n].reviewed
           /\ pk'[n].vtags = pk[n].vtags
           /\ pk'[n].worktree = pk[n].worktree]_vars

\* A constructor that refused a directory left purged by a failed fetch.
C18_Witness ==
    /\ last.op = "init"
    /\ last.raised = "WorkingDirNotCleanException"
    /\ Status(pk[last.name])
    /\ ~pk[last.name].open

\* C19: Package(...) on a name without a directory makes a root commit with
\* no file, message 'Initial commit', the tags reviewed and empty on it and a
\* branch upstream that starts at it; with no provider it raises nothing and
\* leaves that one commit, upstream and master on it, and master checked out.
C19_NewDirectoryInitialized ==
    [][\A n \in Names :
        (last'.op = "init" /\ last'.name = n /\ ~pk[n].exists)
        => LET h == pk'[n]
           IN  /\ h.exists
               /\ Len(h.commits) \in {1, 2}
               /\ h.commits[1] = [tree |-> EmptyTree, msg |-> MsgInitial]
               /\ h.reviewed = 1
               /\ [name |-> TagEmpty, at |-> 1] \in h.vtags
               /\ h.upstream = Len(h.commits)
               /\ "checkout upstream" \notin Range(last'.calls)
                    => /\ last'.raised = ""
                       /\ h.open /\ h.provider = None
                       /\ Len(h.commits) = 1
                       /\ h.master = 1
                       /\ h.head = "master"
                       /\ h.worktree = EmptyTree]_vars

\* A manual package constructed on a new directory.
C19_Witness ==
    /\ last.op = "init"
    /\ last.raised = ""
    /\ "init" \in Range(last.calls)
    /\ pk[last.name].open /\ pk[last.name].provider = None
    /\ pk[last.name].head = "master"
    /\ Len(pk[last.name].commits) = 1

----------------------------------------------------------------------------
\* The claims on the repository.

\* C16: after the first package(name) of a name the AUR knows returns, the
\* Package has a provider whose version V is the message and the tag of the
\* tip of upstream, master is at that tip, version() is V, review_needed()
\* is true, and false after validate_review().
C16_FirstResolutionFetches ==
    [][\A n \in Names :
        (last'.op = "package" /\ last'.name = n /\ last'.raised = ""
            /\ ~pk[n].exists /\ db[n] = "" /\ db'[n] = "aur" /\ InAur(n))
        => LET h == pk'[n]
           IN  /\ h.provider # None
               /\ h.upstream > 1
               /\ h.master = h.upstream
               /\ h.commits[h.upstream].msg = AurVersion(h.provider[1])
               /\ [name |-> AurVersion(h.provider[1]), at |-> h.upstream] \in h.vtags
               /\ Version(h).version = Some(AurVersion(h.provider[1]))
               /\ ReviewNeeded(h).ret = "True"
               /\ ReviewNeeded(ValidateReview(h)).ret = "False"]_vars

\* C17: package(name) with the default type, for a name with no recorded
\* type that the AUR does not hold, raises PackageNotInRepositoryException
\* and changes nothing: no directory, no recorded type, no open Package.
C17_UnknownNameLeavesNoTrace ==
    [][\A n \in Names :
        (last'.op = "package" /\ last'.name = n /\ last'.arg = "default"
            /\ db[n] = "" /\ ~InAur(n))
        => /\ last'.raised = "PackageNotInRepositoryException"
           /\ pk' = pk
           /\ db' = db]_vars

\* A package(name) that raised for a name without directory or type.
C17_Witness ==
    /\ last.op = "package"
    /\ last.arg = "default"
    /\ last.raised = "PackageNotInRepositoryException"
    /\ ~pk[last.name].exists
    /\ db[last.name] = ""
    /\ ~pk[last.name].open

\* C21: for a name with a recorded type, package(name, type) does for every
\* type passed what it does when the recorded type is passed, and a recorded
\* type never changes.
C21_RecordedTypeWins ==
    [][\A n \in Names :
        db[n] # ""
        => /\ db'[n] = db[n]
           /\ (last'.op = "package" /\ last'.name = n)
                => LET w == RepositoryPackage(World(pk, db, NoInstall), n, db[n])
                   IN  /\ pk' = w.pk
                       /\ last'.raised = w.raised
                       /\ Len(last'.calls) = Len(w.probes) + Len(w.warned)]_vars

\* A name recorded as aur resolved while manual was passed: the AUR was asked.
C21_Witness ==
    /\ last.op = "package"
    /\ last.arg = "manual"
    /\ last.ret = "new"
    /\ db[last.name] = "aur"
    /\ "aur_info" \in Range(last.calls)

\* C22: package(name) for a name recorded as aur that the AUR does not hold
\* raises nothing: it makes a Package without provider, warns, and leaves
\* the recorded type at aur; so in every later process.
C22_MissingAurDegrades ==
    [][\A n \in Names :
        (last'.op = "package" /\ last'.name = n
            /\ db[n] = "aur" /\ ~InAur(n) /\ ~pk[n].open)
        => /\ last'.raised = ""
           /\ pk'[n].open
           /\ pk'[n].provider = None
           /\ last'.calls = <<"aur_info", "warn">>
           /\ db'[n] = "aur"]_vars

\* A name recorded as aur that the AUR does not hold, resolved with a warning
\* over the directory an earlier process left.
C22_Witness ==
    /\ last.op = "package"
    /\ last.raised = ""
    /\ "warn" \in Range(last.calls)
    /\ db[last.name] = "aur"
    /\ ~InAur(last.name)
    /\ pk[last.name].open
    /\ Len(pk[last.name].commits) = 2

\* C39: every open Package of the repository has a recorded type, every
\* recorded type is aur or manual, never default, and a package(name, type)
\* call that raises, for a name that is not in the repository, a directory
\* with modified files or a type that is not supported, changes neither the
\* recorded types nor the open packages.
C39_RepositoryInvariant ==
    [][/\ \A n \in Names :
            /\ pk'[n].open => db'[n] # ""
            /\ db'[n] \in {"", "aur", "manual"}
       /\ (last'.op = "package" /\ last'.raised # "")
            => /\ db' = db
               /\ \A n \in Names : pk'[n].open = pk[n].open
               /\ last'.raised \in {"PackageNotInRepositoryException", "ValueError",
                                    "WorkingDirNotCleanException"}]_vars

\* A package(name) call that raised on a directory with modified files,
\* while another package was open: that one still is, and no type was
\* recorded for the name.
C39_Witness ==
    /\ last.op = "package"
    /\ last.raised = "WorkingDirNotCleanException"
    /\ db[last.name] = ""
    /\ \E n \in Names : pk[n].open /\ db[n] \in {"aur", "manual"}

\* C20: package(name, type) for a name whose Package is open returns that
\* Package whatever the type is, a type the method does not know included:
\* it raises nothing, asks the AUR nothing, and no directory, Package or
\* recorded type changes.
C20_OpenPackageReturned ==
    [][\A n \in Names :
        (last'.op = "package" /\ last'.name = n /\ pk[n].open)
        => /\ last'.raised = ""
           /\ last'.ret = "open"
           /\ last'.calls = <<>>
           /\ pk' = pk
           /\ db' = db]_vars

\* A lookup of an open Package with a type that package() does not know.
C20_Witness ==
    /\ last.op = "package"
    /\ last.ret = "open"
    /\ last.arg = "devel"
    /\ pk[last.name].open

----------------------------------------------------------------------------
\* The claims on the install queue.

\* No recipe requires, through any chain of dependencies, its own package.
Acyclic ==
    LET Reach[k \in 0..Cardinality(Names)] ==
            IF k = 0 THEN [n \in Names |-> {depends[n][i] : i \in DOMAIN depends[n]}]
            ELSE [n \in Names |->
                    Reach[k - 1][n] \cup UNION {Reach[k - 1][m] : m \in Reach[k - 1][n]}]
    IN  \A n \in Names : n \notin Reach[Cardinality(Names)][n]

\* C2: for every dependency graph without a cycle, and with none of the
\* packages installed yet, a queued package that the recipe of another queued
\* package requires stands before it in to_install after every add_packages
\* call.
C2_DependencyBeforeDependent ==
    (Acyclic /\ installedPkgs = {}) =>
        \A i, j \in 1..Len(inst.to_install) :
            (\E k \in DOMAIN depends[inst.to_install[i]] :
                    depends[inst.to_install[i]][k] = inst.to_install[j])
                => j < i

\* C3: no package stands twice in to_install, whatever was called on the
\* Install object.
C3_NoDuplicates ==
    \A i, j \in 1..Len(inst.to_install) :
        inst.to_install[i] = inst.to_install[j] => i = j

\* A queue that holds a package requested twice and one that two queued
\* packages require.
C3_Witness ==
    /\ inst.repeated
    /\ \E n \in Names :
          /\ InQueue(inst.to_install, n)
          /\ Cardinality({inst.dependencies[n][i] : i \in DOMAIN inst.dependencies[n]}) >= 2

\* C37: add_package returns on every dependency graph, cycles included, and
\* the dependencies of a package are walked once, when it enters to_install:
\* a queued package is recorded exactly once for every dependency of its
\* recipe, among the dependents of the dependency or with the dependency
\* among its external ones, and nothing is recorded for a package that is
\* not queued.
C37_DependenciesWalkedOnce ==
    \A n \in Names :
        /\ \A i, j \in DOMAIN inst.dependencies[n] :
              inst.dependencies[n][i] = inst.dependencies[n][j] => i = j
        /\ \A i, j \in DOMAIN inst._pacman_dependencies[n] :
              inst._pacman_dependencies[n][i] = inst._pacman_dependencies[n][j] => i = j
        /\ IF InQueue(inst.to_install, n)
           THEN \A i \in DOMAIN depends[n] :
                    (n \in Range(inst.dependencies[depends[n][i]]))
                        # (depends[n][i] \in Range(inst._pacman_dependencies[n]))
           ELSE /\ inst._pacman_dependencies[n] = <<>>
                /\ \A d \in Names : n \notin Range(inst.dependencies[d])

\* Two packages that require each other, both queued and each walked once,
\* after a call that asked for a queued package again.
C37_Witness ==
    /\ inst.repeated
    /\ depends["a"] = <<"b">> /\ depends["b"] = <<"a">>
    /\ InQueue(inst.to_install, "a") /\ InQueue(inst.to_install, "b")
    /\ inst.dependencies["a"] = <<"b">>
    /\ inst.dependencies["b"] = <<"a">>

\* C38, as stated: every package that has dependents recorded in
\* Install.dependencies is in to_install, whatever was called on the Install
\* object and whether the package is installed or not.
C38_DependencyKeysAreQueued ==
    \A d \in Names : inst.dependencies[d] # <<>> => InQueue(inst.to_install, d)

\* C38, amended: every package that has dependents recorded in
\* Install.dependencies is a package the repository resolved, and it is in
\* to_install or installed; the dependents recorded for it are in to_install
\* and their recipes list it.
C38_DependencyKeysQueuedOrInstalled ==
    \A d \in Names :
        inst.dependencies[d] # <<>> =>
            /\ pk[d].open
            /\ InQueue(inst.to_install, d) \/ Installed(d)
            /\ \A n \in Range(inst.dependencies[d]) :
                  InQueue(inst.to_install, n) /\ d \in Range(depends[n])

\* An installed package with a recorded dependent that is not queued itself.
C38_Witness ==
    \E d \in Names :
        /\ inst.dependencies[d] # <<>>
        /\ Installed(d)
        /\ ~InQueue(inst.to_install, d)

\* C26: for a dependency graph without a cycle, every dependency that the
\* recipe of a queued package lists is either resolved, and then the package
\* is recorded among its dependents and, unless it is installed, it stands
\* before the package in to_install, or recorded as an external dependency
\* of the package, never both; and no name recorded as an external dependency
\* is in to_install.
C26_DependencyPartition ==
    Acyclic =>
        /\ \A n \in Range(inst.to_install) : \A d \in Range(depends[n]) :
              \/ /\ n \in Range(inst.dependencies[d])
                 /\ d \notin Range(inst._pacman_dependencies[n])
                 /\ ~Installed(d) =>
                       \E i, j \in DOMAIN inst.to_install :
                           i < j /\ inst.to_install[i] = d /\ inst.to_install[j] = n
              \/ /\ d \in Range(inst._pacman_dependencies[n])
                 /\ n \notin Range(inst.dependencies[d])
        /\ \A n, d \in Names :
              d \in Range(inst._pacman_dependencies[n]) => ~InQueue(inst.to_install, d)

\* C24: add_packages(names) that returns leaves every requested name in
\* to_install, installed or not; an installed package that it queues is one
\* of the requested ones, and a dependency of a queued package that resolved
\* and is not installed is queued.
C24_RequestedNamesAreQueued ==
    [][(last'.op = "add_packages" /\ last'.raised = "")
        => /\ \A i \in DOMAIN last'.pkgs : InQueue(inst'.to_install, last'.pkgs[i])
           /\ \A n \in Names :
                 (InQueue(inst'.to_install, n) /\ ~InQueue(inst.to_install, n) /\ Installed(n))
                 => n \in Range(last'.pkgs)
           /\ \A n \in Range(inst'.to_install) : \A d \in Range(depends[n]) :
                 (pk'[d].open /\ ~Installed(d)) => InQueue(inst'.to_install, d)]_vars

\* add_packages queued a requested package that is installed, and left out a
\* dependency of it that resolved and is installed.
C24_Witness ==
    /\ last.op = "add_packages"
    /\ last.raised = ""
    /\ \E n \in Range(last.pkgs), d \in Names :
          /\ Installed(n)
          /\ InQueue(inst.to_install, n)
          /\ d \in Range(depends[n])
          /\ Installed(d)
          /\ pk[d].open
          /\ ~InQueue(inst.to_install, d)

\* C25: add_package(pkg, force=False) on an installed package changes neither
\* to_install nor the dependents map nor the external-dependency map, and
\* touches no other package: the recipe of pkg is not read and no dependency
\* is resolved.
C25_InstalledNotForcedIsNoOp ==
    [][(last'.op = "add_package" /\ last'.raised = ""
            /\ ~last'.force /\ Installed(last'.name))
        => /\ inst'.to_install = inst.to_install
           /\ inst'.dependencies = inst.dependencies
           /\ inst'._pacman_dependencies = inst._pacman_dependencies
           /\ pk' = RepoPackage(World(pk, db, inst), last'.name).pk
           /\ \A m \in Names \ {last'.name} : pk'[m] = pk[m]]_vars

\* add_package without force on an installed package whose recipe lists
\* dependencies, on an Install object whose queue is not empty.
C25_Witness ==
    /\ last.op = "add_package"
    /\ last.raised = ""
    /\ ~last.force
    /\ Installed(last.name)
    /\ depends[last.name] # <<>>
    /\ ~InQueue(inst.to_install, last.name)
    /\ inst.to_install # <<>>

\* C27: pacman_dependencies() returns, for every dependency name, the queued
\* packages whose recipe lists it and for which it was recorded as external,
\* when the dependency is not installed, and nothing for the other names; it
\* changes neither the recorded maps nor to_install nor any package.
C27_PendingExternalDependencies ==
    [][last'.op = "pacman_dependencies"
        => /\ last'.raised = ""
           /\ \A d, n \in Names :
                 n \in last'.pending[d]
                 <=> (d \in Range(inst._pacman_dependencies[n]) /\ ~Installed(d))
           /\ \A d \in Names : \A n \in last'.pending[d] :
                 InQueue(inst.to_install, n) /\ d \in Range(depends[n])
           /\ inst' = inst
           /\ pk' = pk
           /\ db' = db]_vars

\* pacman_dependencies() returned a dependency that is not installed, and
\* left out a recorded one that is.
C27_Witness ==
    /\ last.op = "pacman_dependencies"
    /\ \E d \in Names : last.pending[d] # {}
    /\ \E d, n \in Names :
          /\ d \in Range(inst._pacman_dependencies[n])
          /\ Installed(d)
          /\ last.pending[d] = {}

\* C28: update_aur() raises nothing over a foreign package that does not
\* resolve: that package is left as it was and the packages after it are
\* resolved; a foreign package that was not queued is queued iff it resolved
\* and upgrade_available() is true for it.
C28_UpdateAurSkipsUnresolved ==
    [][last'.op = "update_aur"
        => /\ last'.raised = ""
           /\ \A n \in Range(ForeignPackages) :
                 IF InAur(n) \/ db[n] # "" \/ pk[n].open
                 THEN /\ pk'[n].open
                      /\ ~InQueue(inst.to_install, n)
                         => (InQueue(inst'.to_install, n)
                             <=> UpgradeAvailable(pk'[n], n, n \in last'.newer))
                 ELSE /\ pk'[n] = pk[n]
                      /\ db'[n] = db[n]
                      /\ InQueue(inst'.to_install, n) <=> InQueue(inst.to_install, n)]_vars

\* update_aur() went over a foreign package that does not resolve and opened
\* the one after it, which the AUR holds in a version greater than the
\* installed one.
C28_Witness ==
    /\ last.op = "update_aur"
    /\ last.raised = ""
    /\ Len(ForeignPackages) = 2
    /\ ~InAur(ForeignPackages[1])
    /\ ~pk[ForeignPackages[1]].exists
    /\ pk[ForeignPackages[2]].open
    /\ ForeignPackages[2] \in last.newer
    /\ Len(last.probes) = 2

----------------------------------------------------------------------------
\* The claims on the command line flow.

\* C30: the list packages_to_review() returned holds the queued packages for
\* which review_needed() is true, each once, in the order of to_install.
C30_ToReviewIsFilteredQueue ==
    cli.pc = "confirm"
    => cli.to_review
         = SelectSeq(inst.to_install, LAMBDA n : ReviewNeeded(pk[n]).ret = "True")

\* A queue of two packages that both need a review, one being the dependency
\* of the other.
C30_Witness ==
    /\ cli.pc = "confirm"
    /\ Len(inst.to_install) = 2
    /\ cli.to_review = inst.to_install
    /\ inst.to_install[1] \in Range(depends[inst.to_install[2]])

\* C29: when fetch_all has returned and the flow waits for the confirmation,
\* every queued package has master on the commit of upstream and master
\* checked out.
C29_FetchAllLeavesMasterOnUpstream ==
    cli.pc = "confirm"
    => \A n \in Range(inst.to_install) :
          pk[n].master = pk[n].upstream /\ pk[n].head = "master"

\* C10: in a run of review_and_install, makepkg is never run on a package
\* whose recipe differs from the reviewed one by a line that is neither a
\* pkgver nor a sum, unless the user validated its review with y in that run.
C10_NoBuildWithoutReview ==
    \A i \in DOMAIN cli.built :
        cli.built[i].name \notin cli.answered
            => \A id \in ChangedIds(cli.base[cli.built[i].name], cli.built[i].tree) :
                    StartsWithAny(Text(id), VersionAndSumPrefixes, 0)

\* C11: install() calls build_and_install on the packages of to_install in
\* their order; when a call raises, install() ends with that exception and
\* calls build_and_install, and so makepkg, on no package after it.
C11_InstallInOrderHaltsOnFailure ==
    cli.queue # <<>> =>
        /\ Len(cli.called) \in 1..Len(cli.queue)
        /\ \A i \in DOMAIN cli.called :
              /\ cli.called[i].name = cli.queue[i]
              /\ i < Len(cli.called) => cli.called[i].raised = ""
        /\ IF cli.called[Len(cli.called)].raised = ""
           THEN cli.exit = "done" /\ Len(cli.called) = Len(cli.queue)
           ELSE cli.exit = cli.called[Len(cli.called)].raised
        /\ \A i \in DOMAIN cli.built :
              \E j \in DOMAIN cli.called : cli.called[j].name = cli.built[i].name

\* An install() of two packages that stopped at the first, whose build failed.
C11_Witness ==
    /\ Len(cli.queue) = 2
    /\ Len(cli.called) = 1
    /\ cli.called[1].raised = "CalledProcessError"
    /\ cli.exit = "CalledProcessError"

-----------------------------------------------------------------------------
\* Versions.

\* C33: on two versions d.d.d-r of three numeric segments version_is_greater
\* raises nothing and is the strict order of (segment tuple, release): the
\* segments decide as numbers from left to right, equal segments leave it
\* to the releases as strings; it is false on equal versions, never true
\* both ways round, transitive, and 2.0.2-1 is above 2.0.1-2, 2.0.1-2 not
\* above 2.0.2-1, 2.12.4-5 not above itself.
C33_StrictOrderOnNumericVersions ==
    LET Parts(v) == Split(v, "-")
        Segs(v) == Split(Parts(v)[1], ".")
        Numeric(v) ==
            /\ Len(Parts(v)) = 2
            /\ Len(Segs(v)) = 3
            /\ \A i \in 1..3 :
                  /\ Segs(v)[i] # <<>>
                  /\ \A j \in DOMAIN Segs(v)[i] :
                        CharOrd(Segs(v)[i][j]) \in CharOrd("0")..CharOrd("9")
        Num(v, i) == TryInt(Segs(v)[i]).n
        Above(v, w) ==
            \/ Num(v, 1) > Num(w, 1)
            \/ /\ Num(v, 1) = Num(w, 1)
               /\ \/ Num(v, 2) > Num(w, 2)
                  \/ /\ Num(v, 2) = Num(w, 2)
                     /\ \/ Num(v, 3) > Num(w, 3)
                        \/ /\ Num(v, 3) = Num(w, 3)
                           /\ StrGreater(Parts(v)[2], Parts(w)[2])
    IN  /\ (last.op = "version_is_greater" /\ Numeric(last.v1) /\ Numeric(last.v2)) =>
              /\ last.raised = ""
              /\ last.ret = Above(last.v1, last.v2)
              /\ last.v1 = last.v2 => ~last.ret
              /\ ~(last.ret /\ VersionIsGreater(last.v2, last.v1).ret)
              /\ \A v3 \in {v \in Versions : Numeric(v)} :
                    (last.ret /\ VersionIsGreater(last.v2, v3).ret)
                        => VersionIsGreater(last.v1, v3).ret
        /\ (last.op = "version_is_greater" /\ last.v1 = TestVersions[1]
                /\ last.v2 = TestVersions[2]) => last.ret
        /\ (last.op = "version_is_greater" /\ last.v1 = TestVersions[2]
                /\ last.v2 = TestVersions[1]) => ~last.ret /\ last.raised = ""
        /\ (last.op = "version_is_greater" /\ last.v1 = TestVersions[3]
                /\ last.v2 = TestVersions[3]) => ~last.ret /\ last.raised = ""

\* 2.10.2-2 found greater than 2.2.2-10: as text both the segments and the
\* releases would say the opposite.
C33_Witness ==
    /\ last.op = "version_is_greater"
    /\ last.v1 = <<"2", ".", "1", "0", ".", "2", "-", "2">>
    /\ last.v2 = <<"2", ".", "2", ".", "2", "-", "1", "0">>
    /\ last.raised = ""
    /\ last.ret

\* C34: version_is_greater returns a boolean and raises nothing when a
\* segment that is not a number meets one that is, and 1.0.27.206_r0-1 is
\* greater than 1.0.27.206-1.
C34_MixedSegmentsCompare ==
    LET Tuple(v) == VersionTuple(Split(v, "-")[1])
        Meet(v, w) ==
            \E i \in DOMAIN Tuple(v) \cap DOMAIN Tuple(w) :
                /\ Tuple(v)[i].isInt # Tuple(w)[i].isInt
                /\ \A j \in 1..(i - 1) : Tuple(v)[j] = Tuple(w)[j]
    IN  /\ (/\ last.op = "version_is_greater"
             /\ Len(Split(last.v1, "-")) = 2
             /\ Len(Split(last.v2, "-")) = 2
             /\ Meet(last.v1, last.v2)) => last.raised = ""
        /\ (last.op = "version_is_greater" /\ last.v1 = TestVersions[4]
                /\ last.v2 = TestVersions[5]) => last.raised = "" /\ last.ret

\* C32: upgrade_available() is false for a package without a provider and
\* for one that is not installed, without comparing anything; otherwise it
\* is what version_is_greater makes of the upstream version and the
\* installed one, and so false when the two are equal.
C32_UpgradeIffUpstreamGreater ==
    last.op = "upgrade_available" =>
        /\ last.provider = (pk[Subject].provider # None)
        /\ last.installed = Installed(Subject)
        /\ IF ~last.provider \/ ~last.installed
           THEN last.raised = "" /\ ~last.ret
           ELSE /\ last.v1 = AurVersion(pk[Subject].provider[1])
                /\ last.raised = VersionIsGreater(last.v1, last.v2).raised
                /\ last.ret = VersionIsGreater(last.v1, last.v2).ret
                /\ last.v1 = last.v2 => last.raised = "" /\ ~last.ret

\* upgrade_available() of a package installed in the version upstream
\* holds: no upgrade.
C32_Witness ==
    /\ last.op = "upgrade_available"
    /\ last.provider /\ last.installed
    /\ last.v1 = last.v2
    /\ last.v1 # <<>>
    /\ ~last.ret

-----------------------------------------------------------------------------
\* The command as a whole.

\* C40: review_and_install runs makepkg for no package when to_install is
\* empty, and then fetches nothing either, nor when the answer to 'Do you
\* confirm' is not y; and when it builds a package, fetch_all has gone
\* through the whole queue before and the user was asked to validate every
\* package of packages_to_review.
C40_NoBuildWithoutFetchAndPrompts ==
    [][/\ cli'.exit = "nothing to do"
            => /\ cli'.built = <<>> /\ cli'.called = <<>> /\ cli'.fetched = <<>>
               /\ \A n \in Names :
                     /\ pk'[n].commits = pk[n].commits
                     /\ pk'[n].master = pk[n].master
                     /\ pk'[n].upstream = pk[n].upstream
                     /\ pk'[n].worktree = pk[n].worktree
       /\ cli'.exit = "declined"
            => /\ cli'.built = <<>> /\ cli'.called = <<>>
               /\ cli.pc = "confirm"
               /\ installedPkgs' = installedPkgs
               /\ \A n \in Names : pk'[n] = Closed(pk[n])
       /\ cli'.called # <<>>
            => /\ cli.pc \in {"confirm", "validate"}
               /\ cli'.fetched = cli'.queue
               /\ cli'.fetched # <<>>
               /\ cli'.at = Len(cli'.to_review)
               /\ cli.at = (IF cli.pc = "confirm" THEN 0 ELSE Len(cli.to_review))]_vars

\* A command that built a package after the user had been asked about two
\* packages to review.
C40_Witness ==
    /\ cli.built # <<>>
    /\ Len(cli.to_review) = 2
    /\ cli.at = 2
    /\ cli.exit = "done"

====
